---- MODULE Spec2Model ----
(***************************************************************************)
(* Truck-loading and delivery-route workflow of sms-standalone:            *)
(*   routes/delivery.js      determineDeliveryMethod, GET /orders,         *)
(*                           POST /optimize-route                          *)
(*   services/openroute.js   optimizeDeliveryRoute, geocodeAddress         *)
(*   public/delivery.js      the dashboard session (order lists, route)    *)
(***************************************************************************)
EXTENDS Integers, Sequences, FiniteSets, TLC

(***************************************************************************)
(* JavaScript values.  A missing / null / undefined string is NULL; a      *)
(* missing object is NoObject.  JS strings are TLA+ strings, so that       *)
(* toLowerCase() and includes() are computed character by character.       *)
(***************************************************************************)
NULL == "<null>"

NoObject == [absent |-> TRUE]

\* JS truthiness of a string-or-null value
Truthy(s) == s # NULL /\ s # ""

\* JS `s || ''`
OrEmpty(s) == IF Truthy(s) THEN s ELSE ""

UpperToLower ==
    ("A" :> "a") @@ ("B" :> "b") @@ ("C" :> "c") @@ ("D" :> "d") @@
    ("E" :> "e") @@ ("F" :> "f") @@ ("G" :> "g") @@ ("H" :> "h") @@
    ("I" :> "i") @@ ("J" :> "j") @@ ("K" :> "k") @@ ("L" :> "l") @@
    ("M" :> "m") @@ ("N" :> "n") @@ ("O" :> "o") @@ ("P" :> "p") @@
    ("Q" :> "q") @@ ("R" :> "r") @@ ("S" :> "s") @@ ("T" :> "t") @@
    ("U" :> "u") @@ ("V" :> "v") @@ ("W" :> "w") @@ ("X" :> "x") @@
    ("Y" :> "y") @@ ("Z" :> "z")

LowerChar(c) == IF c \in DOMAIN UpperToLower THEN UpperToLower[c] ELSE c

RECURSIVE ToLowerCase(_)
\* String.prototype.toLowerCase
ToLowerCase(s) ==
    IF Len(s) = 0 THEN ""
    ELSE LowerChar(SubSeq(s, 1, 1)) \o ToLowerCase(SubSeq(s, 2, Len(s)))

\* String.prototype.includes
Includes(s, k) ==
    \E i \in 1..(Len(s) - Len(k) + 1) : SubSeq(s, i, i + Len(k) - 1) = k

RECURSIVE Join(_, _)
\* Array.prototype.join (a null element joins as the empty string)
Join(xs, sep) ==
    IF Len(xs) = 0 THEN ""
    ELSE IF Len(xs) = 1 THEN (IF xs[1] = NULL THEN "" ELSE xs[1])
    ELSE (IF xs[1] = NULL THEN "" ELSE xs[1]) \o sep \o Join(Tail(xs), sep)

\* keywords.some(keyword => title.includes(keyword) || code.includes(keyword))
SomeKeyword(keywords, title, code) ==
    \E k \in keywords : Includes(title, k) \/ Includes(code, k)

(***************************************************************************)
(* routes/delivery.js: determineDeliveryMethod                             *)
(***************************************************************************)
\* if (order.deliveryMethod) with an exact 'Pickup' / 'Home Delivery'
ExplicitMethod(order) ==
    IF Truthy(order.deliveryMethod)
       /\ (order.deliveryMethod = "Pickup" \/ order.deliveryMethod = "Home Delivery")
    THEN order.deliveryMethod
    ELSE NULL

\* keywords in the raw deliveryMethod string
MethodKeywords(order) ==
    IF ~Truthy(order.deliveryMethod) THEN NULL
    ELSE LET method == ToLowerCase(order.deliveryMethod) IN
         IF Includes(method, "pickup") \/ Includes(method, "collection")
            \/ Includes(method, "market")
         THEN "Pickup"
         ELSE IF Includes(method, "delivery") \/ Includes(method, "shipping")
                 \/ Includes(method, "post") \/ Includes(method, "courier")
         THEN "Home Delivery"
         ELSE NULL

\* Priority 2: order tags
TagRule(order) ==
    IF Len(order.tags) = 0 THEN NULL
    ELSE LET tagString == ToLowerCase(Join(order.tags, ",")) IN
         IF Includes(tagString, "pickup") \/ Includes(tagString, "collection")
            \/ Includes(tagString, "market")
         THEN "Pickup"
         ELSE IF Includes(tagString, "delivery") \/ Includes(tagString, "shipping")
         THEN "Home Delivery"
         ELSE NULL

pickupKeywords ==
    {"pickup", "collection", "collect", "market", "store pickup", "local pickup"}

deliveryKeywords ==
    {"delivery", "shipping", "post", "courier", "express", "standard", "home delivery"}

\* ShippingLineRule with the delivery keywords tested before the pickup keywords
ShippingLineRule_DeliveryFirst(order) ==
    IF Len(order.shipping_lines) = 0 THEN NULL
    ELSE LET shippingLine == order.shipping_lines[1]
             title == ToLowerCase(OrEmpty(shippingLine.title))
             code  == ToLowerCase(OrEmpty(shippingLine.code))
         IN  IF SomeKeyword(deliveryKeywords, title, code) THEN "Home Delivery"
             ELSE IF SomeKeyword(pickupKeywords, title, code) THEN "Pickup"
             ELSE NULL

\* Priority 3: the first shipping line's title and code
ShippingLineRule(order) ==
    IF Len(order.shipping_lines) = 0 THEN NULL
    ELSE LET shippingLine == order.shipping_lines[1]
             title == ToLowerCase(OrEmpty(shippingLine.title))
             code  == ToLowerCase(OrEmpty(shippingLine.code))
         IN  IF SomeKeyword(pickupKeywords, title, code) THEN "Pickup"
             ELSE IF SomeKeyword(deliveryKeywords, title, code) THEN "Home Delivery"
             ELSE NULL

\* order.x_address && (order.x_address.address1 || order.x_address.city)
HasValidAddress(addr) ==
    addr # NoObject /\ (Truthy(addr.address1) \/ Truthy(addr.city))

\* AddressRule without the final `return 'Pickup'`
AddressRule_NoFallback(order) ==
    LET hasValidShippingAddress == HasValidAddress(order.shipping_address)
        hasValidBillingAddress  == HasValidAddress(order.billing_address)
        shippingSame ==
            /\ order.shipping_address.address1 = order.billing_address.address1
            /\ order.shipping_address.city = order.billing_address.city
    IN  IF hasValidShippingAddress /\ hasValidBillingAddress /\ ~shippingSame
        THEN "Home Delivery"
        ELSE IF hasValidShippingAddress /\ ~hasValidBillingAddress
        THEN "Home Delivery"
        ELSE IF ~hasValidShippingAddress /\ hasValidBillingAddress
        THEN "Pickup"
        ELSE NULL

\* AddressRule as in the earlier handler: any usable shipping address is a delivery
AddressRule_ShippingFirst(order) ==
    IF HasValidAddress(order.shipping_address) THEN "Home Delivery" ELSE "Pickup"

\* Priority 4: address-based detection, then the final fallback
AddressRule(order) ==
    LET hasValidShippingAddress == HasValidAddress(order.shipping_address)
        hasValidBillingAddress  == HasValidAddress(order.billing_address)
        shippingSame ==
            /\ order.shipping_address.address1 = order.billing_address.address1
            /\ order.shipping_address.city = order.billing_address.city
    IN  IF hasValidShippingAddress /\ hasValidBillingAddress /\ ~shippingSame
        THEN "Home Delivery"
        ELSE IF hasValidShippingAddress /\ ~hasValidBillingAddress
        THEN "Home Delivery"
        ELSE IF ~hasValidShippingAddress /\ hasValidBillingAddress
        THEN "Pickup"
        ELSE "Pickup"

\* determineDeliveryMethod with the shipping line consulted before the tags
determineDeliveryMethod_LineBeforeTags(order) ==
    LET explicit == ExplicitMethod(order)
        keywords == MethodKeywords(order)
        tagged   == TagRule(order)
        shipping == ShippingLineRule(order)
    IN  IF explicit # NULL THEN explicit
        ELSE IF keywords # NULL THEN keywords
        ELSE IF shipping # NULL THEN shipping
        ELSE IF tagged # NULL THEN tagged
        ELSE AddressRule(order)

\* determineDeliveryMethod with the tags consulted before deliveryMethod
determineDeliveryMethod_TagsFirst(order) ==
    LET explicit == ExplicitMethod(order)
        keywords == MethodKeywords(order)
        tagged   == TagRule(order)
        shipping == ShippingLineRule(order)
    IN  IF tagged # NULL THEN tagged
        ELSE IF explicit # NULL THEN explicit
        ELSE IF keywords # NULL THEN keywords
        ELSE IF shipping # NULL THEN shipping
        ELSE AddressRule(order)

determineDeliveryMethod(order) ==
    LET explicit == ExplicitMethod(order)
        keywords == MethodKeywords(order)
        tagged   == TagRule(order)
        shipping == ShippingLineRule(order)
    IN  IF explicit # NULL THEN explicit
        ELSE IF keywords # NULL THEN keywords
        ELSE IF tagged # NULL THEN tagged
        ELSE IF shipping # NULL THEN shipping
        ELSE AddressRule(order)

(***************************************************************************)
(* Classifier inputs: well-formed orders as routes/delivery.js reads them  *)
(* (deliveryMethod string or absent, tags list, shipping_lines list,       *)
(* shipping_address / billing_address object or absent).                   *)
(***************************************************************************)
MaxTags == 2

MaxLines == 2

DeliveryMethodValues ==
    {NULL, "Pickup", "Home Delivery", "Unknown", "Market Stall", "Courier Post"}

TagValues == {"Local Pickup", "SHIPPING", "courier"}

ShippingLineValues ==
    { [title |-> "Express Delivery", code |-> NULL],
      [title |-> "Standard", code |-> "Collect"],
      [title |-> NULL, code |-> "flat"] }

AddressValues ==
    { NoObject,
      [address1 |-> "", city |-> ""],
      [address1 |-> "12 Farm Rd", city |-> "Newcastle"],
      [address1 |-> "12 Farm Rd", city |-> "Sydney"],
      [address1 |-> "5 High St", city |-> "Newcastle"] }

SeqsUpTo(S, n) == UNION { [1..k -> S] : k \in 0..n }

ClassifierOrders ==
    [ deliveryMethod   : DeliveryMethodValues,
      tags             : SeqsUpTo(TagValues, MaxTags),
      shipping_lines   : SeqsUpTo(ShippingLineValues, MaxLines),
      shipping_address : AddressValues,
      billing_address  : AddressValues ]

(***************************************************************************)
(* Orders as services/shopify.js fetchOrdersForSMS returns them.  Numbers  *)
(* and strings are kept apart (Shopify's id and order_number are JSON      *)
(* numbers): a JS value is [t |-> "num", v |-> n] or [t |-> "str", v |-> s]*)
(***************************************************************************)
MaxOrders == 3

Num(n) == [t |-> "num", v |-> n]

Str(s) == [t |-> "str", v |-> s]

NaN == [t |-> "nan", v |-> 0]

DigitValue ==
    ("0" :> 0) @@ ("1" :> 1) @@ ("2" :> 2) @@ ("3" :> 3) @@ ("4" :> 4) @@
    ("5" :> 5) @@ ("6" :> 6) @@ ("7" :> 7) @@ ("8" :> 8) @@ ("9" :> 9)

RECURSIVE LeadingDigits(_, _, _)
\* the value of the longest decimal prefix of s, NaN when s starts with no digit
LeadingDigits(s, acc, seen) ==
    IF Len(s) > 0 /\ SubSeq(s, 1, 1) \in DOMAIN DigitValue
    THEN LeadingDigits(SubSeq(s, 2, Len(s)),
                       10 * acc + DigitValue[SubSeq(s, 1, 1)], TRUE)
    ELSE IF seen THEN Num(acc) ELSE NaN

\* parseInt(x): an integer is itself, a string parses its leading digits
ParseInt(x) ==
    IF x.t = "num" THEN x
    ELSE IF x.t = "str" THEN LeadingDigits(x.v, 0, FALSE)
    ELSE NaN

\* truthiness of a number (0 and NaN are falsy)
TruthyNumber(x) == x.t = "num" /\ x.v # 0

DigitChars == <<"0", "1", "2", "3", "4", "5", "6", "7", "8", "9">>

RECURSIVE NatToString(_)
\* the decimal digits of a natural number
NatToString(n) ==
    IF n < 10 THEN DigitChars[n + 1]
    ELSE NatToString(n \div 10) \o DigitChars[(n % 10) + 1]

\* String(x) of a number or a string
StringOf(x) ==
    IF x.t = "str" THEN x.v
    ELSE IF x.t = "num" THEN NatToString(x.v)
    ELSE "NaN"

AddressA == [address1 |-> "12 Farm Rd", city |-> "Newcastle"]

AddressB == [address1 |-> "5 High St", city |-> "Sydney"]

\* the shapes of order a fetched batch is made of (without id and orderNumber)
OrderProfiles ==
    { \* a market pickup
      [ deliveryMethod |-> "Pickup", fulfillmentStatus |-> "unfulfilled",
        tags |-> << >>, shipping_lines |-> << >>,
        shipping_address |-> NoObject, billing_address |-> AddressA,
        customer |-> [name |-> "Ann", phone |-> "0400000001"] ],
      \* a home delivery classified by the order source
      [ deliveryMethod |-> "Home Delivery", fulfillmentStatus |-> "unfulfilled",
        tags |-> << >>,
        shipping_lines |-> << [title |-> "Express Delivery", code |-> NULL] >>,
        shipping_address |-> AddressA, billing_address |-> AddressA,
        customer |-> [name |-> "Bob", phone |-> "0400000002"] ],
      \* a partly fulfilled order that only the address heuristic makes a delivery
      [ deliveryMethod |-> "Unknown", fulfillmentStatus |-> "partial",
        tags |-> <<"VIP">>, shipping_lines |-> << >>,
        shipping_address |-> AddressB, billing_address |-> NoObject,
        customer |-> [name |-> "Cy", phone |-> ""] ],
      \* a delivery that carries no address at all
      [ deliveryMethod |-> "Home Delivery", fulfillmentStatus |-> "unfulfilled",
        tags |-> << >>, shipping_lines |-> << >>,
        shipping_address |-> NoObject, billing_address |-> NoObject,
        customer |-> [name |-> "Di", phone |-> ""] ],
      \* an order that is already fulfilled
      [ deliveryMethod |-> "Home Delivery", fulfillmentStatus |-> "fulfilled",
        tags |-> << >>, shipping_lines |-> << >>,
        shipping_address |-> AddressB, billing_address |-> AddressB,
        customer |-> [name |-> "Ed", phone |-> "0400000005"] ] }

\* the i-th order of a batch: Shopify ids and order numbers are unique numbers
FetchedOrder(i, profile) ==
    [ id |-> Num(5000 + i), orderNumber |-> Num(1000 + i),
      name |-> "#" \o NatToString(1000 + i) ] @@ profile

FetchedBatches ==
    UNION { { [i \in 1..n |-> FetchedOrder(i, ps[i])] : ps \in [1..n -> OrderProfiles] } :
            n \in 0..MaxOrders }

\* xs.map(F)
Map(xs, F(_)) == [i \in 1..Len(xs) |-> F(xs[i])]

(***************************************************************************)
(* routes/delivery.js: GET /orders                                         *)
(***************************************************************************)
\* the eligibility filter without 'partial'
IsUnfulfilled_OnlyUnfulfilled(o) == o.fulfillmentStatus = "unfulfilled"

IsUnfulfilled(o) ==
    o.fulfillmentStatus = "unfulfilled" \/ o.fulfillmentStatus = "partial"

IsPickup(o) == determineDeliveryMethod(o) = "Pickup"

IsNotPickup(o) == ~IsPickup(o)

PickupEntry(o) ==
    [section |-> "fridge", deliveryType |-> "pickup", deliveryMethod |-> "Pickup"] @@ o

DeliveryEntry(o) ==
    LET address == IF o.shipping_address # NoObject
                   THEN o.shipping_address ELSE o.billing_address
    IN  [ section |-> "freezer", deliveryType |-> "delivery",
          deliveryMethod |-> "Home Delivery",
          customer |-> ([address |-> address] @@ o.customer),
          hasAddress |-> (address # NoObject) ] @@ o

\* the response body for the orders fetchOrdersForSMS returned
GetOrders(orders) ==
    LET unfulfilledOrders == SelectSeq(orders, IsUnfulfilled)
        deliveries == Map(SelectSeq(unfulfilledOrders, IsNotPickup), DeliveryEntry)
        pickups    == Map(SelectSeq(unfulfilledOrders, IsPickup), PickupEntry)
    IN  [ success |-> TRUE,
          summary |-> [ total |-> Len(unfulfilledOrders),
                        deliveries |-> Len(deliveries),
                        pickups |-> Len(pickups) ],
          deliveries |-> deliveries,
          pickups |-> pickups,
          allOrders |-> unfulfilledOrders ]

\* the 500 response when fetchOrdersForSMS throws
GetOrdersFailed(message) ==
    [success |-> FALSE, error |-> message, deliveries |-> << >>, pickups |-> << >>]

(***************************************************************************)
(* services/openroute.js (geocodeAddress, optimizeDeliveryRoute).          *)
(* Coordinates are integers, in units of 1e-4 degree.                      *)
(***************************************************************************)
FARM_LOCATION == <<1512093, -338688>>

MarketsLocation == <<1517789, -329283>>

ServiceSeconds == 300

\* what the geocoding service may answer for one lookup: a failed request, no
\* feature, or its best match
GeocodeReplies(address) ==
    { [kind |-> "error", message |-> "timeout of 10000ms exceeded"],
      [kind |-> "ok", features |-> << >>],
      [kind |-> "ok",
       features |-> << [ coordinates |->
                            IF address.city = "Newcastle"
                            THEN <<1517500, -329200>> ELSE <<1512000, -338600>>,
                         confidence |-> 1 ] >>] }

\* geocodeAddress(address), given the service's answer: coordinates or null
geocodeAddress(keySet, address, reply) ==
    IF ~keySet THEN NoObject
    ELSE IF reply.kind = "error" THEN NoObject
    ELSE IF Len(reply.features) > 0
    THEN LET feature == reply.features[1] IN
         [ longitude  |-> feature.coordinates[1],
           latitude   |-> feature.coordinates[2],
           confidence |-> feature.confidence ]
    ELSE NoObject

\* order.deliveryType, order.deliveryMethod, order.customer?.address of any order
DeliveryTypeOf(o) == IF "deliveryType" \in DOMAIN o THEN o.deliveryType ELSE NULL

DeliveryMethodOf(o) == IF "deliveryMethod" \in DOMAIN o THEN o.deliveryMethod ELSE NULL

AddressOf(o) ==
    IF "customer" \in DOMAIN o /\ "address" \in DOMAIN o.customer
    THEN o.customer.address ELSE NoObject

\* order.customer?.address?.longitude && order.customer?.address?.latitude
HasCoordinates(o) ==
    LET address == AddressOf(o) IN
    /\ address # NoObject
    /\ "longitude" \in DOMAIN address /\ address.longitude # 0
    /\ "latitude" \in DOMAIN address /\ address.latitude # 0

\* the filter of optimizeDeliveryRoute's jobs
JobEligible(o) ==
    /\ (DeliveryTypeOf(o) = "delivery" \/ DeliveryMethodOf(o) = "Home Delivery")
    /\ HasCoordinates(o)

\* parseInt(order.id) || index + 1
JobId(o, index) ==
    IF TruthyNumber(ParseInt(o.id)) THEN ParseInt(o.id).v ELSE index + 1

Job(o, index) ==
    [ id          |-> JobId(o, index),
      service     |-> ServiceSeconds,
      amount      |-> <<1>>,
      location    |-> <<o.customer.address.longitude, o.customer.address.latitude>>,
      description |-> <<"Order", o.orderNumber, o.customer.name>> ]

BuildJobs(orders) ==
    LET eligible == SelectSeq(orders, JobEligible) IN
    [i \in 1..Len(eligible) |-> Job(eligible[i], i - 1)]

Vehicles(jobs, startLocation, options) ==
    LET vehicle == [ id |-> 1, profile |-> "driving-car", start |-> startLocation,
                     end |-> MarketsLocation, capacity |-> <<Len(jobs) + 10>> ]
    IN  IF "vehicleOptions" \in DOMAIN options
        THEN << options.vehicleOptions @@ vehicle >>
        ELSE << vehicle >>

\* the catch block returning only the flag and the message
RouteFailure_Bare(message) == [success |-> FALSE, error |-> message]

\* the structured failure of the catch block
RouteFailure(message) ==
    [success |-> FALSE, error |-> message, optimizedRoute |-> << >>, packingOrder |-> << >>]

\* optimizeDeliveryRoute up to its await: either a result at once, or the
\* request it posts to the solver
OptimizeStart(keySet, orders, startLocation, options) ==
    IF ~keySet
    THEN [call |-> FALSE, result |-> RouteFailure("ORS_API_KEY environment variable not set")]
    ELSE LET jobs == BuildJobs(orders) IN
         IF Len(jobs) = 0
         THEN [ call |-> FALSE,
                result |-> [ success |-> TRUE, optimizedRoute |-> << >>,
                             packingOrder |-> << >>, totalDistance |-> 0,
                             totalTime |-> 0, message |-> "No delivery orders found" ] ]
         ELSE [ call |-> TRUE,
                request |-> [ jobs |-> jobs,
                              vehicles |-> Vehicles(jobs, startLocation, options),
                              options |-> [g |-> TRUE] ] ]

\* xs.find(P) as an index, 0 for undefined
FindIndex(xs, P(_)) ==
    IF \E i \in 1..Len(xs) : P(xs[i])
    THEN CHOOSE i \in 1..Len(xs) : P(xs[i]) /\ \A j \in 1..(i - 1) : ~P(xs[j])
    ELSE 0

\* [...xs] without the reverse()
Reverse_Copy(xs) == xs

\* [...xs].reverse()
Reverse(xs) == [i \in 1..Len(xs) |-> xs[Len(xs) + 1 - i]]

\* one entry of optimizedRoute; jobIndex and orderIndex are the results of the
\* two find() calls (orderIndex 0: the spread of undefined adds nothing)
RouteStop(orders, jobs, step, jobIndex, orderIndex) ==
    LET annotation == [ sequence    |-> step.arrival,
                        location    |-> jobs[jobIndex].location,
                        arrivalTime |-> step.arrival ]
    IN  IF orderIndex = 0 THEN annotation ELSE annotation @@ orders[orderIndex]

IsJobStep(step) == step.type = "job"

\* optimizeDeliveryRoute after the solver call returned `reply`
OptimizeFinish(orders, startLocation, request, reply) ==
    IF reply.kind = "error" THEN RouteFailure(reply.message)
    ELSE IF reply.data = NoObject \/ "routes" \notin DOMAIN reply.data
    THEN RouteFailure("Invalid response from ORS API")
    ELSE IF Len(reply.data.routes) = 0
    THEN RouteFailure("Cannot read properties of undefined (reading 'steps')")
    ELSE
      LET jobs == request.jobs
          route == reply.data.routes[1]
          optimizedJobs == SelectSeq(route.steps, IsJobStep)
          JobIndex(step) == LET SameId(j) == j.id = step.id IN FindIndex(jobs, SameId)
          OrderIndex(step) ==
              LET SameId(o) == ParseInt(o.id).t = "num" /\ ParseInt(o.id).v = step.id
              IN  FindIndex(orders, SameId)
          optimizedRoute ==
              [k \in 1..Len(optimizedJobs) |->
                  RouteStop(orders, jobs, optimizedJobs[k],
                            JobIndex(optimizedJobs[k]), OrderIndex(optimizedJobs[k]))]
      IN  IF \E k \in 1..Len(optimizedJobs) : JobIndex(optimizedJobs[k]) = 0
          THEN RouteFailure("Cannot read properties of undefined (reading 'location')")
          ELSE [ success        |-> TRUE,
                 optimizedRoute |-> optimizedRoute,
                 packingOrder   |-> Reverse(optimizedRoute),
                 totalDistance  |-> route.distance,
                 totalTime      |-> route.duration,
                 geometry       |-> route.geometry,
                 summary |-> [ deliveries    |-> Len(jobs),
                               \* km with two decimals, in hundredths of a km
                               totalDistance |-> (route.distance + 5) \div 10,
                               totalTime     |-> (route.duration + 30) \div 60,
                               startLocation |-> startLocation,
                               endLocation   |-> MarketsLocation ] ]

\* the orders in which the solver may visit m jobs: as submitted, reversed, or
\* reversed with the first job left unassigned
Visits(m) ==
    { [k \in 1..m |-> k], [k \in 1..m |-> m + 1 - k], [k \in 1..(m - 1) |-> m + 1 - k] }

SolverRoute(jobs, visit) ==
    [ steps |-> << [type |-> "start", arrival |-> 0] >>
                \o [k \in 1..Len(visit) |->
                       [ type |-> "job", id |-> jobs[visit[k]].id,
                         arrival |-> 600 * k + ServiceSeconds * (k - 1) ]]
                \o << [ type |-> "end",
                        arrival |-> (600 + ServiceSeconds) * Len(visit) + 600 ] >>,
      distance |-> 12345 * (Len(visit) + 1),
      duration |-> (600 + ServiceSeconds) * Len(visit) + 600,
      geometry |-> "polyline" ]

\* a route with a job step whose id is none of the submitted jobs
StrayRoute(jobs) ==
    LET ids == {jobs[j].id : j \in 1..Len(jobs)}
        stray == (CHOOSE m \in ids : \A i \in ids : i <= m) + 1
    IN  [ steps |-> << [type |-> "start", arrival |-> 0],
                       [type |-> "job", id |-> stray, arrival |-> 600],
                       [type |-> "end", arrival |-> 1500] >>,
          distance |-> 12345, duration |-> 1500, geometry |-> "polyline" ]

\* what the routing solver may answer: a failed request (timeout, 5xx), a body
\* without routes, an empty routes list, or one route over the jobs
SolverReplies(request) ==
    { [kind |-> "error", message |-> "timeout of 30000ms exceeded"],
      [kind |-> "error", message |-> "Request failed with status code 500"],
      [kind |-> "ok", data |-> [code |-> 3]],
      [kind |-> "ok", data |-> [code |-> 0, routes |-> << >>]] }
    \cup { [kind |-> "ok",
            data |-> [code |-> 0, routes |-> << SolverRoute(request.jobs, visit) >>]] :
           visit \in Visits(Len(request.jobs)) }
    \cup { [kind |-> "ok",
            data |-> [code |-> 0, routes |-> << StrayRoute(request.jobs) >>]] }

(***************************************************************************)
(* routes/delivery.js: POST /optimize-route                                *)
(***************************************************************************)
\* isDelivery && hasAddress of the handler's first filter
RoutableDelivery(o) ==
    /\ DeliveryTypeOf(o) = "delivery"
    /\ AddressOf(o) # NoObject
    /\ (Truthy(AddressOf(o).address1) \/ Truthy(AddressOf(o).city))

\* coordinates && coordinates.longitude && coordinates.latitude
Resolved(coordinates) ==
    coordinates # NoObject /\ coordinates.longitude # 0 /\ coordinates.latitude # 0

\* the order pushed to deliveryOrdersWithCoords
WithCoordinates(o, coordinates) ==
    [o EXCEPT !.customer =
        [@ EXCEPT !.address = [ longitude |-> coordinates.longitude,
                                latitude  |-> coordinates.latitude ] @@ @]]

\* the empty outcomes reported as failures
EmptyRoute_AsFailure(message, debug) ==
    [ success |-> FALSE, error |-> message, optimizedRoute |-> << >>,
      packingOrder |-> << >> ]

\* a successful response that carries no route, only a message
EmptyRoute(message, debug) ==
    [ success |-> TRUE, optimizedRoute |-> << >>, packingOrder |-> << >>,
      message |-> message, debug |-> debug ]

\* an order as another client may post it: only the fields the handler reads
ApiOrder(id, orderNumber) ==
    [ id |-> id, orderNumber |-> orderNumber, deliveryType |-> "delivery",
      customer |-> [name |-> "Zed", address |-> AddressA] ]

\* request bodies of other clients: no orders, an order whose id is not a
\* number, and that order behind one whose id is a numeric string
ApiRequests ==
    { [orders |-> << >>, options |-> << >>],
      [orders |-> << ApiOrder(Str("A7"), Num(2001)) >>, options |-> << >>],
      [ orders |-> << ApiOrder(Str("12"), Num(2002)), ApiOrder(Str("A7"), Num(2001)) >>,
        options |-> << >> ] }

\* the value of a result variable before the call has returned
PENDING == "<pending>"

VARIABLES
    order,          \* the order handed to determineDeliveryMethod
    classification, \* what the first call returned (PENDING before the call)
    reclassified,   \* what a second call on the same order returned
    \* the server process
    orsKeySet,      \* whether process.env.ORS_API_KEY is set
    \* the dashboard session (public/delivery.js)
    allOrders, deliveryOrders, pickupOrders,
    optimizedRoute, \* the stored optimization result, NoObject for null
    \* the last GET /orders exchange
    fetchedOrders,  \* what fetchOrdersForSMS returned
    ordersResponse, \* the response body
    \* the POST /optimize-route exchange in progress
    optPc,          \* "idle", "geocoding", "solving" or "responded"
    optClient,      \* who sent the request: "dashboard" or "api"
    reqOrders,      \* req.body.orders
    reqOptions,     \* req.body.options
    rawDeliveryOrders,
    lookups,        \* the result of each geocodeAddress call made so far
    deliveryOrdersWithCoords,
    solverRequest,  \* the body posted to the solver, NoObject before the call
    solverReply,    \* what the solver answered
    solverCalls,    \* how many times this request has called the solver
    optResponse,    \* the response body on its way to the dashboard
    \* the loading tracker of the dashboard
    loadedOrders,   \* order id -> {timestamp, section}
    togglePc,       \* "idle", or "tracking" while toggleOrderLoaded awaits
    toggleCall,     \* the locals of the toggleOrderLoaded call in progress
    trackRequest,   \* the body posted to /track-loading
    lastToggle,     \* history: the last toggleOrderLoaded call that finished
    \* the scanner and the details modal
    modalOrderId,   \* data-order-id of the open modal, NULL when it is closed
    lastScan,       \* the newest entry of the recent scans, with what followed
    \* the keyboard listener of the USB scanner
    scannerActive,
    scanBuffer,
    scanTimeout,    \* the id setTimeout returned last, 0 before the first
    timers,         \* the ids of the scan timeouts set and neither cleared nor run
    keyEvents,      \* history: the keydown events dispatched, the newest last
    processed,      \* history: the codes handed to processBarcodeInput by the listener
    \* the exports
    exportedCsv,    \* what the last export handed to downloadCsv or showError
    \* optimizeRoute() calls of the dashboard that overlap
    optimizeCalls,  \* the calls issued: where each stands, and its response
    routeEvents,    \* in order: the calls that returned, and the resets of a route
    \* the last request posted by a client other than the dashboard
    apiRequest,     \* its body
    apiReply,       \* the response body of /track-loading or /split-route
    \* the calls one /optimize-route request makes to the routing service
    geoPending,     \* the turns of the geocoding loop whose lookup has not returned
    serviceCalls    \* history: the calls sent and the lookups returned, in order

classifyVars == <<order, classification, reclassified>>

sessionVars == <<allOrders, deliveryOrders, pickupOrders, optimizedRoute>>

ordersVars == <<fetchedOrders, ordersResponse>>

handlerVars ==
    << optPc, optClient, reqOrders, reqOptions, rawDeliveryOrders, lookups,
       deliveryOrdersWithCoords, solverRequest, solverReply, solverCalls,
       optResponse >>

loadingVars == <<loadedOrders, togglePc, toggleCall, trackRequest, lastToggle>>

keyVars == <<scannerActive, scanBuffer, scanTimeout, timers, keyEvents, processed>>

scanVars == <<modalOrderId, lastScan, keyVars>>

exportVars == <<exportedCsv>>

raceVars == <<optimizeCalls, routeEvents>>

callVars == <<geoPending, serviceCalls>>

apiVars == <<apiRequest, apiReply, callVars>>

vars ==
    << classifyVars, orsKeySet, sessionVars, ordersVars, handlerVars,
       loadingVars, scanVars, exportVars, raceVars, apiVars >>

\* no optimize request is in progress
HandlerIdle ==
    /\ optPc = "idle"
    /\ optClient = NULL
    /\ reqOrders = << >>
    /\ reqOptions = << >>
    /\ rawDeliveryOrders = << >>
    /\ lookups = << >>
    /\ deliveryOrdersWithCoords = << >>
    /\ solverRequest = NoObject
    /\ solverReply = NoObject
    /\ solverCalls = 0
    /\ optResponse = NoObject

\* nothing is loaded and no toggle is in progress
LoadingIdle ==
    /\ loadedOrders = << >>
    /\ togglePc = "idle"
    /\ toggleCall = NoObject
    /\ trackRequest = NoObject
    /\ lastToggle = NoObject

\* the modal is closed and nothing has been scanned
ScanIdle ==
    /\ modalOrderId = NULL
    /\ lastScan = NoObject
    /\ scannerActive = FALSE
    /\ scanBuffer = ""
    /\ scanTimeout = 0
    /\ timers = {}
    /\ keyEvents = << >>
    /\ processed = << >>

\* nothing has been exported
ExportIdle == exportedCsv = NoObject

\* no overlapping optimizeRoute() calls are followed
RaceIdle ==
    /\ optimizeCalls = << >>
    /\ routeEvents = << >>

\* no other client has posted a request
ApiIdle ==
    /\ apiRequest = NoObject
    /\ apiReply = NoObject
    /\ geoPending = {}
    /\ serviceCalls = << >>

\* the dashboard as the page loads it
SessionEmpty ==
    /\ allOrders = << >>
    /\ deliveryOrders = << >>
    /\ pickupOrders = << >>
    /\ optimizedRoute = NoObject
    /\ fetchedOrders = << >>
    /\ ordersResponse = NoObject
    /\ HandlerIdle
    /\ LoadingIdle
    /\ ScanIdle
    /\ ExportIdle
    /\ RaceIdle
    /\ ApiIdle

ClassifyInit ==
    /\ order \in ClassifierOrders
    /\ classification = PENDING
    /\ reclassified = PENDING
    /\ orsKeySet = TRUE
    /\ SessionEmpty

\* first call of determineDeliveryMethod(order)
Classify ==
    /\ classification = PENDING
    /\ classification' = determineDeliveryMethod(order)
    /\ UNCHANGED <<order, reclassified, orsKeySet, sessionVars, ordersVars, handlerVars,
                   loadingVars, scanVars,
                   exportVars, raceVars, apiVars>>

\* second call on the same order
ClassifyAgain ==
    /\ classification # PENDING
    /\ reclassified = PENDING
    /\ reclassified' = determineDeliveryMethod(order)
    /\ UNCHANGED <<order, classification, orsKeySet, sessionVars, ordersVars, handlerVars,
                   loadingVars, scanVars,
                   exportVars, raceVars, apiVars>>

ClassifyNext == Classify \/ ClassifyAgain

SpecClassify == ClassifyInit /\ [][ClassifyNext]_vars

\* C1: determineDeliveryMethod returns exactly 'Pickup' or 'Home Delivery' for
\* every well-formed order, and a second call on the same order returns the
\* same value.
C1_Total ==
    /\ classification # PENDING => classification \in {"Pickup", "Home Delivery"}
    /\ reclassified # PENDING => reclassified = classification

C1_Witness ==
    /\ reclassified = "Home Delivery"
    /\ order.deliveryMethod = NULL
    /\ Len(order.tags) = 0
    /\ Len(order.shipping_lines) = 0
    /\ order.billing_address = NoObject

\* C2: the classifier is a priority cascade (explicit deliveryMethod, keywords
\* in the raw deliveryMethod, tags, first shipping line, address heuristics
\* with the fallback): the result is the verdict of the first conclusive rule
\* (NULL is "inconclusive"), whatever the later rules say.
C2_Cascade ==
    LET explicit == ExplicitMethod(order)
        keywords == MethodKeywords(order)
        tagged   == TagRule(order)
        shipping == ShippingLineRule(order)
    IN  classification # PENDING =>
          /\ explicit # NULL => classification = explicit
          /\ (explicit = NULL /\ keywords # NULL) => classification = keywords
          /\ (explicit = NULL /\ keywords = NULL /\ tagged # NULL)
                => classification = tagged
          /\ (explicit = NULL /\ keywords = NULL /\ tagged = NULL /\ shipping # NULL)
                => classification = shipping
          /\ (explicit = NULL /\ keywords = NULL /\ tagged = NULL /\ shipping = NULL)
                => classification = AddressRule(order)

\* a 'pickup' tag wins over a first shipping line that says delivery and a
\* distinct shipping address
C2_Witness ==
    /\ classification = "Pickup"
    /\ ExplicitMethod(order) = NULL /\ MethodKeywords(order) = NULL
    /\ TagRule(order) = "Pickup"
    /\ ShippingLineRule(order) = "Home Delivery"
    /\ AddressRule(order) = "Home Delivery"

\* C3: a deliveryMethod of exactly 'Pickup' or 'Home Delivery' is returned
\* unchanged, regardless of tags, shipping lines and addresses.
C3_ExplicitUnchanged ==
    ( /\ classification # PENDING
      /\ order.deliveryMethod \in {"Pickup", "Home Delivery"} )
    => classification = order.deliveryMethod

C3_Witness ==
    /\ classification = "Home Delivery"
    /\ order.deliveryMethod = "Home Delivery"
    /\ order.tags = <<"Local Pickup">>
    /\ Len(order.shipping_lines) > 0
    /\ order.shipping_lines[1].code = "Collect"
    /\ order.shipping_address = NoObject
    /\ order.billing_address # NoObject

\* the deliveryMethod rules (priority 1 and its keyword fallback) are inconclusive
MethodInconclusive ==
    ExplicitMethod(order) = NULL /\ MethodKeywords(order) = NULL

\* some tag contains (case-insensitively) a keyword of the group
TagsMention(group) ==
    \E i \in 1..Len(order.tags) :
        LET tag == ToLowerCase(order.tags[i]) IN
        \E k \in group : Includes(tag, k)

\* C4: with the deliveryMethod rules inconclusive, the tag rule uses the same
\* two keyword groups as the raw-deliveryMethod rule: a tag of the pickup group
\* {pickup, collection, market} gives Pickup, otherwise a tag of the delivery
\* group {delivery, shipping, post, courier} gives Home Delivery.
C4_TagGroups ==
    ( classification # PENDING /\ MethodInconclusive ) =>
        /\ TagsMention({"pickup", "collection", "market"})
              => classification = "Pickup"
        /\ ( /\ ~TagsMention({"pickup", "collection", "market"})
             /\ TagsMention({"delivery", "shipping", "post", "courier"}) )
              => classification = "Home Delivery"

\* the first shipping line's lower-cased title or code contains a keyword
FirstLineMentions(group) ==
    LET line  == order.shipping_lines[1]
        title == ToLowerCase(OrEmpty(line.title))
        code  == ToLowerCase(OrEmpty(line.code))
    IN  \E k \in group : Includes(title, k) \/ Includes(code, k)

C5_PickupList ==
    {"pickup", "collection", "collect", "market", "store pickup", "local pickup"}

C5_DeliveryList ==
    {"delivery", "shipping", "post", "courier", "express", "standard", "home delivery"}

\* C5: with no deliveryMethod and no tags, a pickup keyword in the first
\* shipping line's title or code gives Pickup (even beside a delivery keyword),
\* a delivery keyword without a pickup keyword gives Home Delivery whatever the
\* addresses are, and only the first shipping line is consulted: when it holds
\* no keyword the address heuristics decide, whatever the later lines say.
C5_FirstShippingLine ==
    ( /\ classification # PENDING
      /\ ~Truthy(order.deliveryMethod)
      /\ Len(order.tags) = 0
      /\ Len(order.shipping_lines) > 0 )
    => /\ FirstLineMentions(C5_PickupList) => classification = "Pickup"
       /\ ( ~FirstLineMentions(C5_PickupList) /\ FirstLineMentions(C5_DeliveryList) )
             => classification = "Home Delivery"
       /\ ( ~FirstLineMentions(C5_PickupList) /\ ~FirstLineMentions(C5_DeliveryList) )
             => classification = AddressRule(order)

\* Scenario B, with a second shipping line that says pickup
C5_Witness ==
    /\ classification = "Home Delivery"
    /\ order.deliveryMethod = NULL
    /\ order.tags = << >>
    /\ order.shipping_lines =
          << [title |-> "Express Delivery", code |-> NULL],
             [title |-> "Standard", code |-> "Collect"] >>
    /\ order.shipping_address = NoObject
    /\ order.billing_address = NoObject

\* deliveryMethod, tags and shipping line are all inconclusive
AddressDecides ==
    /\ classification # PENDING
    /\ MethodInconclusive
    /\ TagRule(order) = NULL
    /\ ShippingLineRule(order) = NULL

AddressesDiffer ==
    \/ order.shipping_address.address1 # order.billing_address.address1
    \/ order.shipping_address.city # order.billing_address.city

\* C6 as stated, an address being "present" when the order carries the object:
\* both present and differing in address1 or city gives Home Delivery, only
\* shipping present gives Home Delivery, only billing present gives Pickup,
\* both present and identical gives Pickup, neither present gives Pickup.
C6_PresentAddress ==
    LET shipping == order.shipping_address # NoObject
        billing  == order.billing_address # NoObject
    IN  AddressDecides =>
          /\ (shipping /\ billing /\ AddressesDiffer) => classification = "Home Delivery"
          /\ (shipping /\ ~billing) => classification = "Home Delivery"
          /\ (~shipping /\ billing) => classification = "Pickup"
          /\ (shipping /\ billing /\ ~AddressesDiffer) => classification = "Pickup"
          /\ (~shipping /\ ~billing) => classification = "Pickup"

\* an address counts when the object is there and has an address1 or a city
C6_Usable(addr) ==
    addr # NoObject /\ (Truthy(addr.address1) \/ Truthy(addr.city))

\* C6 (amended): the same five cases, an address counting as present only when
\* it has a non-empty address1 or city; an address object with neither is
\* treated as absent.
C6_UsableAddress ==
    LET shipping == C6_Usable(order.shipping_address)
        billing  == C6_Usable(order.billing_address)
    IN  AddressDecides =>
          /\ (shipping /\ billing /\ AddressesDiffer) => classification = "Home Delivery"
          /\ (shipping /\ ~billing) => classification = "Home Delivery"
          /\ (~shipping /\ billing) => classification = "Pickup"
          /\ (shipping /\ billing /\ ~AddressesDiffer) => classification = "Pickup"
          /\ (~shipping /\ ~billing) => classification = "Pickup"

\* Scenario C: '12 Farm Rd', 'Newcastle' on both sides, behind an inconclusive
\* deliveryMethod, tag and first shipping line
C6_Witness ==
    /\ classification = "Pickup"
    /\ order.deliveryMethod = "Unknown"
    /\ order.tags = <<"courier">>
    /\ Len(order.shipping_lines) = 2
    /\ order.shipping_lines[1].code = "flat"
    /\ order.shipping_address = [address1 |-> "12 Farm Rd", city |-> "Newcastle"]
    /\ order.billing_address = [address1 |-> "12 Farm Rd", city |-> "Newcastle"]


(***************************************************************************)
(* The dashboard session: one page load of public/delivery.js against the  *)
(* server.  Orders are fetched until a fetch succeeds; route optimizations *)
(* then run one at a time, each geocoding lookup and the solver call being *)
(* a step of its own.                                                      *)
(***************************************************************************)
Init ==
    /\ order = [id |-> Num(0)]
    /\ classification = PENDING
    /\ reclassified = PENDING
    /\ orsKeySet \in BOOLEAN
    /\ SessionEmpty

\* no fetch of the orders has succeeded yet
OrdersNotLoaded ==
    IF ordersResponse = NoObject THEN TRUE ELSE ~ordersResponse.success

\* loadUnfulfilledOrders(), GET /orders answering with the fetched batch
LoadUnfulfilledOrders ==
    /\ optPc = "idle"
    /\ OrdersNotLoaded
    /\ \E batch \in FetchedBatches :
         LET data == GetOrders(batch) IN
         /\ fetchedOrders' = batch
         /\ ordersResponse' = data
         /\ allOrders' = data.allOrders
         /\ deliveryOrders' = data.deliveries
         /\ pickupOrders' = data.pickups
    /\ UNCHANGED <<classifyVars, orsKeySet, optimizedRoute, handlerVars,
                   loadingVars, scanVars,
                   exportVars, raceVars, apiVars>>

\* loadUnfulfilledOrders() when fetchOrdersForSMS throws: the lists keep
\* their contents
LoadUnfulfilledOrdersFailed ==
    /\ optPc = "idle"
    /\ OrdersNotLoaded
    /\ fetchedOrders' = << >>
    /\ ordersResponse' = GetOrdersFailed("Shopify API request failed")
    /\ UNCHANGED <<classifyVars, orsKeySet, sessionVars, handlerVars,
                   loadingVars, scanVars,
                   exportVars, raceVars, apiVars>>

\* POST /optimize-route up to its first await: a response at once, or the
\* list of orders to geocode
HandlerStart(orders) ==
    IF Len(orders) = 0
    THEN [ pc |-> "responded", raw |-> << >>,
           response |-> [ success |-> TRUE, optimizedRoute |-> << >>,
                          packingOrder |-> << >>,
                          message |-> "No orders to optimize" ] ]
    ELSE LET raw == SelectSeq(orders, RoutableDelivery)
             IsDelivery(o) == DeliveryTypeOf(o) = "delivery"
             HasAddress1(o) == AddressOf(o) # NoObject /\ Truthy(AddressOf(o).address1)
         IN  IF Len(raw) = 0
             THEN [ pc |-> "responded", raw |-> raw,
                    response |->
                        EmptyRoute("No delivery orders with valid addresses found",
                                   [ totalOrders |-> Len(orders),
                                     deliveryOrders |-> Len(SelectSeq(orders, IsDelivery)),
                                     ordersWithAddresses |->
                                         Len(SelectSeq(orders, HasAddress1)) ]) ]
             ELSE [ pc |-> "geocoding", raw |-> raw, response |-> NoObject ]

\* optimizeRoute() of the dashboard, up to the handler's first await
OptimizeRoute ==
    /\ optPc = "idle"
    /\ IF Len(deliveryOrders) = 0
       THEN UNCHANGED handlerVars
       ELSE LET start == HandlerStart(deliveryOrders) IN
            /\ optPc' = start.pc
            /\ optClient' = "dashboard"
            /\ reqOrders' = deliveryOrders
            /\ reqOptions' = << >>
            /\ rawDeliveryOrders' = start.raw
            /\ optResponse' = start.response
            /\ UNCHANGED <<lookups, deliveryOrdersWithCoords, solverRequest,
                           solverReply, solverCalls>>
    /\ UNCHANGED <<classifyVars, orsKeySet, sessionVars, ordersVars, loadingVars, scanVars,
                   exportVars, raceVars, apiVars>>

\* a request posted to /optimize-route by a client other than the dashboard;
\* the handler keeps no state between requests, so these are explored from
\* the freshly loaded page only
ApiOptimizeRoute ==
    /\ optPc = "idle"
    /\ ordersResponse = NoObject
    /\ \E body \in ApiRequests :
         LET start == HandlerStart(body.orders) IN
         /\ optPc' = start.pc
         /\ optClient' = "api"
         /\ reqOrders' = body.orders
         /\ reqOptions' = body.options
         /\ rawDeliveryOrders' = start.raw
         /\ optResponse' = start.response
    /\ UNCHANGED <<lookups, deliveryOrdersWithCoords, solverRequest, solverReply, solverCalls>>
    /\ UNCHANGED <<classifyVars, orsKeySet, sessionVars, ordersVars, loadingVars, scanVars,
                   exportVars, raceVars, apiVars>>

\* the loop body falling back to the farm's coordinates for an unresolved address
PushIfResolved_Defaulted(withCoords, o, coordinates) ==
    Append(withCoords,
           WithCoordinates(o, IF Resolved(coordinates) THEN coordinates
                              ELSE [ longitude |-> FARM_LOCATION[1],
                                     latitude  |-> FARM_LOCATION[2] ]))

\* the body of the geocoding loop after the await
PushIfResolved(withCoords, o, coordinates) ==
    IF Resolved(coordinates)
    THEN Append(withCoords, WithCoordinates(o, coordinates))
    ELSE withCoords

\* the handler once the loop is over, up to the solver call
AfterGeocoding(total, withCoords, options) ==
    IF Len(withCoords) = 0
    THEN [ pc |-> "responded", request |-> NoObject,
           response |->
               EmptyRoute("No delivery addresses could be geocoded. Check addresses are valid.",
                          [totalDeliveries |-> total, successfulGeocoding |-> 0]) ]
    ELSE LET start == OptimizeStart(orsKeySet, withCoords, FARM_LOCATION, options) IN
         IF start.call
         THEN [pc |-> "solving", request |-> start.request, response |-> NoObject]
         ELSE [pc |-> "responded", request |-> NoObject, response |-> start.result]

\* the loop turn with a failed lookup thrown into the handler's catch block
GeocodeStep_AbortOnFailure(coordinates) ==
    LET o == rawDeliveryOrders[Len(lookups) + 1]
        withCoords == PushIfResolved(deliveryOrdersWithCoords, o, coordinates)
        last == Len(lookups) + 1 = Len(rawDeliveryOrders)
        after == AfterGeocoding(Len(rawDeliveryOrders), withCoords, reqOptions)
        thrown == coordinates = NoObject
    IN  /\ lookups' = Append(lookups, coordinates)
        /\ deliveryOrdersWithCoords' = withCoords
        /\ optPc' = IF thrown THEN "responded" ELSE IF last THEN after.pc ELSE "geocoding"
        /\ solverRequest' = IF ~thrown /\ last THEN after.request ELSE solverRequest
        /\ solverCalls' = IF ~thrown /\ last /\ after.pc = "solving"
                          THEN solverCalls + 1 ELSE solverCalls
        /\ optResponse' = IF thrown THEN RouteFailure("Geocoding failed")
                          ELSE IF last THEN after.response ELSE optResponse
        /\ UNCHANGED <<optClient, reqOrders, reqOptions, rawDeliveryOrders, solverReply>>

\* one turn of the geocoding loop, the lookup having returned `coordinates`;
\* the last turn runs on to the response or to the solver call
GeocodeStep(coordinates) ==
    LET o == rawDeliveryOrders[Len(lookups) + 1]
        withCoords == PushIfResolved(deliveryOrdersWithCoords, o, coordinates)
        last == Len(lookups) + 1 = Len(rawDeliveryOrders)
        after == AfterGeocoding(Len(rawDeliveryOrders), withCoords, reqOptions)
    IN  /\ lookups' = Append(lookups, coordinates)
        /\ deliveryOrdersWithCoords' = withCoords
        /\ optPc' = IF last THEN after.pc ELSE "geocoding"
        /\ solverRequest' = IF last THEN after.request ELSE solverRequest
        /\ solverCalls' = IF last /\ after.pc = "solving"
                          THEN solverCalls + 1 ELSE solverCalls
        /\ optResponse' = IF last THEN after.response ELSE optResponse
        /\ UNCHANGED <<optClient, reqOrders, reqOptions, rawDeliveryOrders, solverReply>>

GeocodeNext ==
    /\ optPc = "geocoding"
    /\ Len(lookups) < Len(rawDeliveryOrders)
    /\ LET address == rawDeliveryOrders[Len(lookups) + 1].customer.address IN
       \E reply \in GeocodeReplies(address) :
           GeocodeStep(geocodeAddress(orsKeySet, address, reply))
    /\ UNCHANGED <<classifyVars, orsKeySet, sessionVars, ordersVars, loadingVars, scanVars,
                   exportVars, raceVars, apiVars>>

\* the solver call repeated, once, when it failed
SolverReturns_Retry ==
    /\ optPc = "solving"
    /\ \E reply \in SolverReplies(solverRequest) :
         /\ solverReply' = reply
         /\ IF reply.kind = "error" /\ solverCalls < 2
            THEN /\ optPc' = "solving"
                 /\ solverCalls' = solverCalls + 1
                 /\ UNCHANGED optResponse
            ELSE /\ optPc' = "responded"
                 /\ UNCHANGED solverCalls
                 /\ optResponse' = OptimizeFinish(deliveryOrdersWithCoords, FARM_LOCATION,
                                                  solverRequest, reply)
    /\ UNCHANGED <<optClient, reqOrders, reqOptions, rawDeliveryOrders, lookups,
                   deliveryOrdersWithCoords, solverRequest>>
    /\ UNCHANGED <<classifyVars, orsKeySet, sessionVars, ordersVars, loadingVars, scanVars,
                   exportVars, raceVars, apiVars>>

\* the solver call returns and the handler responds
SolverReturns ==
    /\ optPc = "solving"
    /\ \E reply \in SolverReplies(solverRequest) :
         /\ solverReply' = reply
         /\ optResponse' = OptimizeFinish(deliveryOrdersWithCoords, FARM_LOCATION,
                                          solverRequest, reply)
    /\ optPc' = "responded"
    /\ UNCHANGED <<optClient, reqOrders, reqOptions, rawDeliveryOrders, lookups,
                   deliveryOrdersWithCoords, solverRequest, solverCalls>>
    /\ UNCHANGED <<classifyVars, orsKeySet, sessionVars, ordersVars, loadingVars, scanVars,
                   exportVars, raceVars, apiVars>>

\* result.success && !result.message
StoresRoute(result) ==
    /\ result.success
    /\ ~("message" \in DOMAIN result /\ Truthy(result.message))

\* optimizeRoute() of the dashboard once the response has arrived
ReceiveOptimization ==
    /\ optPc = "responded"
    /\ optimizedRoute' = IF optClient = "dashboard" /\ StoresRoute(optResponse)
                         THEN optResponse ELSE optimizedRoute
    /\ optPc' = "idle"
    /\ optClient' = NULL
    /\ solverCalls' = 0
    /\ reqOrders' = << >>
    /\ reqOptions' = << >>
    /\ rawDeliveryOrders' = << >>
    /\ lookups' = << >>
    /\ deliveryOrdersWithCoords' = << >>
    /\ solverRequest' = NoObject
    /\ solverReply' = NoObject
    /\ optResponse' = NoObject
    /\ UNCHANGED <<classifyVars, orsKeySet, allOrders, deliveryOrders, pickupOrders,
                   ordersVars, loadingVars, scanVars,
                   exportVars, raceVars, apiVars>>

Next ==
    \/ LoadUnfulfilledOrders
    \/ LoadUnfulfilledOrdersFailed
    \/ OptimizeRoute
    \/ ApiOptimizeRoute
    \/ GeocodeNext
    \/ SolverReturns
    \/ ReceiveOptimization

Spec == Init /\ [][Next]_vars


(***************************************************************************)
(* GET /orders                                                             *)
(***************************************************************************)
C7_Eligible(o) == o.fulfillmentStatus \in {"unfulfilled", "partial"}

C7_Count(xs, id) == Cardinality({i \in 1..Len(xs) : xs[i].id = id})

\* C7: in a successful GET /orders result the deliveries and pickups lists
\* partition the fetched orders whose fulfillmentStatus is 'unfulfilled' or
\* 'partial' (each of them is in exactly one list, no other order is in
\* either); pickups entries have section 'fridge' and deliveryType 'pickup',
\* deliveries entries section 'freezer' and deliveryType 'delivery'; and
\* summary.total = summary.deliveries + summary.pickups = length of allOrders.
C7_Partition ==
    (ordersResponse # NoObject /\ ordersResponse.success) =>
      LET r == ordersResponse IN
      /\ \A i \in 1..Len(fetchedOrders) :
            C7_Count(r.deliveries, fetchedOrders[i].id)
              + C7_Count(r.pickups, fetchedOrders[i].id)
            = IF C7_Eligible(fetchedOrders[i]) THEN 1 ELSE 0
      /\ \A k \in 1..Len(r.deliveries) :
            /\ \E i \in 1..Len(fetchedOrders) :
                  /\ fetchedOrders[i].id = r.deliveries[k].id
                  /\ fetchedOrders[i].orderNumber = r.deliveries[k].orderNumber
            /\ r.deliveries[k].section = "freezer"
            /\ r.deliveries[k].deliveryType = "delivery"
      /\ \A k \in 1..Len(r.pickups) :
            /\ \E i \in 1..Len(fetchedOrders) :
                  /\ fetchedOrders[i].id = r.pickups[k].id
                  /\ fetchedOrders[i].orderNumber = r.pickups[k].orderNumber
            /\ r.pickups[k].section = "fridge"
            /\ r.pickups[k].deliveryType = "pickup"
      /\ r.summary.total = r.summary.deliveries + r.summary.pickups
      /\ r.summary.total = Len(r.allOrders)

\* a batch with a pickup, a partly fulfilled delivery and a fulfilled order
C7_Witness ==
    /\ ordersResponse # NoObject
    /\ ordersResponse.success
    /\ Len(fetchedOrders) = 3
    /\ \E i \in 1..3 : fetchedOrders[i].fulfillmentStatus = "fulfilled"
    /\ Len(ordersResponse.pickups) = 1
    /\ Len(ordersResponse.deliveries) = 1
    /\ ordersResponse.deliveries[1].fulfillmentStatus = "partial"
    /\ ordersResponse.summary.total = 2

(***************************************************************************)
(* POST /optimize-route                                                    *)
(***************************************************************************)
C8_ExactReverse(result) ==
    LET n == Len(result.optimizedRoute) IN
    /\ Len(result.packingOrder) = n
    /\ \A i \in 1..n : result.packingOrder[i] = result.optimizedRoute[n + 1 - i]
    /\ \A i \in 1..n : result.optimizedRoute[i] = result.packingOrder[n + 1 - i]

\* C8: in every successful optimization result, the response as well as the
\* result the dashboard has stored, packingOrder is the exact reverse of
\* optimizedRoute (same length, i-th entry from the front equal to the i-th
\* from the back), the empty results included.
C8_PackingReversed ==
    /\ (optResponse # NoObject /\ optResponse.success) => C8_ExactReverse(optResponse)
    /\ optimizedRoute # NoObject => C8_ExactReverse(optimizedRoute)

\* a successful result of three different stops
C8_Witness ==
    /\ optResponse # NoObject
    /\ optResponse.success
    /\ Len(optResponse.optimizedRoute) = 3
    /\ optResponse.optimizedRoute[1].id # optResponse.optimizedRoute[3].id
    /\ optResponse.packingOrder[1].id = optResponse.optimizedRoute[3].id

C9_Jobs ==
    IF solverRequest = NoObject THEN {}
    ELSE {solverRequest.jobs[j] : j \in 1..Len(solverRequest.jobs)}

\* the order has no address, or its lookup came back without coordinates
C9_Unresolved(o) ==
    \/ AddressOf(o) = NoObject
    \/ \E k \in 1..Len(lookups) :
          rawDeliveryOrders[k].id = o.id /\ lookups[k] = NoObject

C9_State ==
    /\ \A job \in C9_Jobs :
          \E i \in 1..Len(reqOrders) :
             /\ reqOrders[i].deliveryType = "delivery"
             /\ reqOrders[i].orderNumber = job.description[2]
             /\ \E k \in 1..Len(lookups) :
                   /\ rawDeliveryOrders[k].id = reqOrders[i].id
                   /\ lookups[k] # NoObject
                   /\ lookups[k].longitude # 0 /\ lookups[k].latitude # 0
                   /\ job.location = <<lookups[k].longitude, lookups[k].latitude>>
    /\ \A i \in 1..Len(reqOrders) :
          C9_Unresolved(reqOrders[i]) =>
             /\ \A job \in C9_Jobs : job.description[2] # reqOrders[i].orderNumber
             /\ optClient = "dashboard" =>
                   /\ \E k \in 1..Len(deliveryOrders) : deliveryOrders[k] = reqOrders[i]
                   /\ \E k \in 1..Len(allOrders) : allOrders[k].id = reqOrders[i].id

C9_Step ==
    (optPc # "idle" \/ optPc' # "idle") =>
        /\ allOrders' = allOrders
        /\ deliveryOrders' = deliveryOrders

\* C9: every job submitted to the solver corresponds to an order of the
\* request (the one its description names) with deliveryType 'delivery' whose
\* lookup resolved a longitude and a
\* latitude, which are the job's location; a delivery order without an address
\* or whose lookup failed has no job, yet (sent by the dashboard) is in the
\* dashboard's deliveries list and full order list; and no step of an
\* optimization changes these two lists.
C9_OnlyResolvedJobs == [](C9_State) /\ [][C9_Step]_vars

\* the solver is working on a request of three deliveries: one without an
\* address, one whose lookup failed, one that became the only job
C9_Witness ==
    /\ optPc = "solving"
    /\ Len(reqOrders) = 3
    /\ \E i \in 1..3 : AddressOf(reqOrders[i]) = NoObject
    /\ Len(lookups) = 2
    /\ \E k \in 1..2 : lookups[k] = NoObject
    /\ Len(solverRequest.jobs) = 1
    /\ Len(deliveryOrders) = 3

C10_Failed == {k \in 1..Len(lookups) : lookups[k] = NoObject}

\* k of the n addressable delivery orders failed to geocode, 0 < k < n
C10_SomeFailed ==
    /\ optPc \in {"solving", "responded"}
    /\ Len(lookups) = Len(rawDeliveryOrders)
    /\ C10_Failed # {}
    /\ Cardinality(C10_Failed) < Len(rawDeliveryOrders)

\* the solver's answer has a route that visits every submitted job
C10_RoutesAllJobs ==
    /\ solverReply # NoObject
    /\ solverReply.kind = "ok"
    /\ "routes" \in DOMAIN solverReply.data
    /\ Len(solverReply.data.routes) > 0
    /\ \A j \in 1..Len(solverRequest.jobs) :
          \E s \in 1..Len(solverReply.data.routes[1].steps) :
             /\ solverReply.data.routes[1].steps[s].type = "job"
             /\ solverReply.data.routes[1].steps[s].id = solverRequest.jobs[j].id

\* C10: a failed lookup does not abort the batch.  Once a lookup has failed the
\* handler still performs every remaining lookup before it goes on; if k of the
\* n addressable delivery orders failed, 0 < k < n, the solver receives exactly
\* n-k jobs; and when the solver routes all of them the response is successful,
\* carries no message, has an optimized route of exactly n-k entries and a
\* packing order that is its exact reverse.
C10_FailureDoesNotAbort ==
    LET n == Len(rawDeliveryOrders)
        k == Cardinality(C10_Failed)
    IN  /\ (C10_Failed # {} /\ optPc # "geocoding") => Len(lookups) = n
        /\ C10_SomeFailed =>
              /\ solverRequest # NoObject
              /\ Len(solverRequest.jobs) = n - k
        /\ (C10_SomeFailed /\ optPc = "responded" /\ C10_RoutesAllJobs) =>
              /\ optResponse.success
              /\ "message" \notin DOMAIN optResponse
              /\ Len(optResponse.optimizedRoute) = n - k
              /\ Len(optResponse.packingOrder) = n - k
              /\ \A s \in 1..(n - k) :
                    optResponse.packingOrder[s]
                       = optResponse.optimizedRoute[n - k + 1 - s]

\* three addressable deliveries, the first lookup failed, the solver routed
\* the other two
C10_Witness ==
    /\ optPc = "responded"
    /\ Len(rawDeliveryOrders) = 3
    /\ Len(lookups) = 3
    /\ C10_Failed = {1}
    /\ C10_RoutesAllJobs
    /\ optResponse.success
    /\ Len(optResponse.optimizedRoute) = 2


\* the job steps of the route the solver returned, << >> when it returned none
SolverJobSteps ==
    IF /\ solverReply # NoObject
       /\ solverReply.kind = "ok"
       /\ "routes" \in DOMAIN solverReply.data
       /\ Len(solverReply.data.routes) > 0
    THEN SelectSeq(solverReply.data.routes[1].steps, IsJobStep)
    ELSE << >>

\* the stop has every field of the order, with the order's value
C11_Carries(stop, o) ==
    \A f \in DOMAIN o : f \in DOMAIN stop /\ stop[f] = o[f]

\* C11 as stated: in a successful result the k-th stop carries the full data of
\* the one submitted order from which the job of the k-th returned job step was
\* built, that step's id belonging to exactly one submitted job (otherwise the
\* result is a failure).
C11_ExactJoin ==
    (optPc = "responded" /\ solverReply # NoObject /\ optResponse.success) =>
       /\ Len(optResponse.optimizedRoute) = Len(SolverJobSteps)
       /\ \A k \in 1..Len(SolverJobSteps) :
             LET built == {j \in 1..Len(solverRequest.jobs) :
                              solverRequest.jobs[j].id = SolverJobSteps[k].id}
             IN  /\ Cardinality(built) = 1
                 /\ \A j \in built :
                       \E i \in 1..Len(deliveryOrdersWithCoords) :
                          /\ deliveryOrdersWithCoords[i].orderNumber
                                = solverRequest.jobs[j].description[2]
                          /\ C11_Carries(optResponse.optimizedRoute[k],
                                         deliveryOrdersWithCoords[i])

\* the request holds no order, no delivery order with an address, or none of
\* its lookups resolved
C12_NothingToOptimize ==
    \/ Len(reqOrders) = 0
    \/ \A i \in 1..Len(reqOrders) :
          \/ DeliveryTypeOf(reqOrders[i]) # "delivery"
          \/ AddressOf(reqOrders[i]) = NoObject
          \/ /\ ~Truthy(AddressOf(reqOrders[i]).address1)
             /\ ~Truthy(AddressOf(reqOrders[i]).city)
    \/ \A k \in 1..Len(lookups) : lookups[k] = NoObject

\* C12: a request with nothing to optimize (no orders, no delivery order with
\* an address, or no resolved address) is answered with success=true, empty
\* optimizedRoute and packingOrder and a non-empty message, without a solver
\* call; success=false is answered only with an error after the solver was
\* called, so the two outcomes differ in the success flag.
C12_EmptyIsSuccess ==
    optPc = "responded" =>
       /\ C12_NothingToOptimize =>
             /\ optResponse.success
             /\ optResponse.optimizedRoute = << >>
             /\ optResponse.packingOrder = << >>
             /\ "message" \in DOMAIN optResponse
             /\ Truthy(optResponse.message)
             /\ solverCalls = 0
             /\ solverRequest = NoObject
       /\ ~optResponse.success =>
             /\ ~C12_NothingToOptimize
             /\ solverCalls = 1
             /\ "error" \in DOMAIN optResponse

\* three addressable deliveries, the key set, every lookup without a result
C12_Witness ==
    /\ optPc = "responded"
    /\ optClient = "dashboard"
    /\ orsKeySet
    /\ Len(rawDeliveryOrders) = 3
    /\ Len(lookups) = 3
    /\ \A k \in 1..3 : lookups[k] = NoObject
    /\ optResponse.success
    /\ optResponse.message
          = "No delivery addresses could be geocoded. Check addresses are valid."

\* C13 as stated: without an API key, a request with at least one delivery
\* order that has an address is answered with success=false and an error.
C13_NoKeyIsFailure ==
    ( /\ ~orsKeySet
      /\ optPc = "responded"
      /\ \E i \in 1..Len(reqOrders) : RoutableDelivery(reqOrders[i]) )
    => /\ ~optResponse.success
       /\ "error" \in DOMAIN optResponse

\* the solver call failed: no answer, an answer without routes, or no route
C14_SolverFailed ==
    /\ solverReply # NoObject
    /\ \/ solverReply.kind = "error"
       \/ "routes" \notin DOMAIN solverReply.data
       \/ Len(solverReply.data.routes) = 0

\* C14: a failed solver call (timeout, 5xx, answer without routes, empty routes
\* list) makes optimizeDeliveryRoute return exactly {success: false, error:
\* <non-empty message>, optimizedRoute: [], packingOrder: []}, the message being
\* the one of the request error when there is one; and a successful result
\* holds a stop for every job step the solver returned.
C14_StructuredFailure ==
    optPc = "responded" =>
       /\ C14_SolverFailed =>
             /\ DOMAIN optResponse = {"success", "error", "optimizedRoute", "packingOrder"}
             /\ ~optResponse.success
             /\ Truthy(optResponse.error)
             /\ solverReply.kind = "error" => optResponse.error = solverReply.message
             /\ optResponse.optimizedRoute = << >>
             /\ optResponse.packingOrder = << >>
       /\ (solverReply # NoObject /\ optResponse.success) =>
             Len(optResponse.optimizedRoute) = Len(SolverJobSteps)

\* the solver answered without a routes field
C14_Witness ==
    /\ optPc = "responded"
    /\ solverReply # NoObject
    /\ solverReply.kind = "ok"
    /\ "routes" \notin DOMAIN solverReply.data
    /\ optResponse.error = "Invalid response from ORS API"

C15_AtMostOne == solverCalls <= 1

\* once the solver has answered, the request makes no further call
C15_NoRetry == solverReply # NoObject => solverCalls' <= solverCalls

\* C15: a request calls the solver at most once, and no call follows the
\* solver's answer, failed or not; the next call belongs to a new request.
C15_OneSolverCall == [](C15_AtMostOne) /\ [][C15_NoRetry]_vars

\* the one call of a request timed out and the failure is on its way back
C15_Witness ==
    /\ optPc = "responded"
    /\ solverCalls = 1
    /\ solverReply # NoObject
    /\ solverReply.kind = "error"
    /\ ~optResponse.success


(***************************************************************************)
(* public/delivery.js: the loading tracker, the details modal, the scanner *)
(* and the route reset, on a dashboard that has loaded its orders.         *)
(***************************************************************************)
MaxTruckOrders == 2

\* order.section, order.name of any order
SectionOf(o) == IF "section" \in DOMAIN o THEN o.section ELSE NULL

NameOf(o) == IF "name" \in DOMAIN o THEN o.name ELSE NULL

\* findOrderByNumber(orderNumber) as an index into the list, 0 for undefined
findOrderByNumber(orders, orderNumber) ==
    LET Exact(o) ==
            \/ o.orderNumber = Str(orderNumber)
            \/ StringOf(o.id) = orderNumber
            \/ NameOf(o) = orderNumber
        Partial(o) ==
            \/ Includes(StringOf(o.orderNumber), orderNumber)
            \/ Includes(StringOf(o.id), orderNumber)
            \/ (Truthy(NameOf(o)) /\ Includes(NameOf(o), orderNumber))
        exact == FindIndex(orders, Exact)
    IN  IF exact # 0 THEN exact ELSE FindIndex(orders, Partial)

\* an order object passed where an id is expected
Object(o) == [t |-> "object", v |-> o]

\* the find() of showOrderDetails(orderId): o.id === orderId ||
\* String(o.id) === orderId, as an index into the list
DetailsOrder(orders, orderId) ==
    LET Same(o) ==
            \/ (orderId.t # "object" /\ o.id = orderId)
            \/ (orderId.t = "str" /\ StringOf(o.id) = orderId.v)
    IN  FindIndex(orders, Same)

\* the find() of toggleOrderLoaded(orderId): String(o.id) === String(orderId)
ToggleOrder(orders, orderId) ==
    LET Same(o) == StringOf(o.id) = orderId IN FindIndex(orders, Same)

\* the body toggleOrderLoaded posts; JSON.stringify drops an undefined section
TrackBody(o, action) ==
    IF SectionOf(o) = NULL
    THEN [orderNumber |-> o.orderNumber, action |-> action]
    ELSE [orderNumber |-> o.orderNumber, section |-> o.section, action |-> action]

\* const { action = 'load' } = req.body
ActionOf(body) == IF "action" \in DOMAIN body THEN body.action ELSE "load"

\* router.post('/track-loading') requiring the order number only
TrackLoading_SectionOptional(body) ==
    IF \/ "orderNumber" \notin DOMAIN body
       \/ ~TruthyNumber(body.orderNumber)
    THEN [success |-> FALSE, error |-> "Order number and section are required"]
    ELSE [ success |-> TRUE, orderNumber |-> body.orderNumber,
           section |-> SectionOf(body), action |-> ActionOf(body),
           message |-> <<"Order", body.orderNumber, ActionOf(body), SectionOf(body)>> ]

\* router.post('/track-loading')
TrackLoading(body) ==
    IF \/ "orderNumber" \notin DOMAIN body
       \/ ~TruthyNumber(body.orderNumber)
       \/ "section" \notin DOMAIN body
       \/ ~Truthy(body.section)
    THEN [success |-> FALSE, error |-> "Order number and section are required"]
    ELSE [ success |-> TRUE, orderNumber |-> body.orderNumber,
           section |-> body.section, action |-> ActionOf(body),
           message |-> <<"Order", body.orderNumber, ActionOf(body), body.section>> ]

\* the table without the entry of orderId
Delete(table, orderId) == [k \in DOMAIN table \ {orderId} |-> table[k]]

\* the load branch applied whatever the response says
ToggleOutcome_LoadBeforeReply(table, call, result, now) ==
    IF call.wasLoaded
    THEN IF result.success THEN Delete(table, call.orderId) ELSE table
    ELSE (call.orderId :> [timestamp |-> now, section |-> SectionOf(call.order)])
            @@ table

\* toggleOrderLoaded after the response: the table it leaves
ToggleOutcome(table, call, result, now) ==
    IF result.success
    THEN IF call.wasLoaded
         THEN Delete(table, call.orderId)
         ELSE (call.orderId :> [timestamp |-> now, section |-> SectionOf(call.order)])
                 @@ table
    ELSE table

\* the values new Date().toISOString() takes
Timestamps == {"2026-01-05T06:00:00.000Z", "2026-01-05T06:00:07.000Z"}

\* the codes scanned or typed: an order number, an order id, an unknown code
ScanCodes == {"1001", "5002", "9999"}

\* the batches the truck is loaded from: market pickups and home deliveries
\* in turn
TruckBatches ==
    LET Profile(name) == CHOOSE p \in OrderProfiles : p.customer.name = name
        Turn(i) == IF i % 2 = 1 THEN Profile("Ann") ELSE Profile("Bob")
    IN  { [i \in 1..n |-> FetchedOrder(i, Turn(i))] : n \in 1..MaxTruckOrders }

\* the ids behind the buttons of the two truck sections
DisplayedIds ==
    {StringOf(deliveryOrders[i].id) : i \in 1..Len(deliveryOrders)}
    \cup {StringOf(pickupOrders[i].id) : i \in 1..Len(pickupOrders)}

LoadedInit ==
    /\ order = [id |-> Num(0)]
    /\ classification = PENDING
    /\ reclassified = PENDING
    /\ orsKeySet = TRUE
    /\ \E batch \in TruckBatches :
          LET data == GetOrders(batch) IN
          /\ fetchedOrders = batch
          /\ ordersResponse = data
          /\ allOrders = data.allOrders
          /\ deliveryOrders = data.deliveries
          /\ pickupOrders = data.pickups
    /\ optimizedRoute = NoObject
    /\ HandlerIdle
    /\ LoadingIdle
    /\ ScanIdle
    /\ ExportIdle
    /\ RaceIdle
    /\ ApiIdle

\* toggleOrderLoaded(orderId) up to its await
ToggleStart(orderId) ==
    LET found == ToggleOrder(allOrders, orderId)
        wasLoaded == orderId \in DOMAIN loadedOrders
        action == IF wasLoaded THEN "unload" ELSE "load"
    IN  IF found = 0
        THEN UNCHANGED loadingVars
        ELSE /\ togglePc' = "tracking"
             /\ toggleCall' = [ orderId |-> orderId, order |-> allOrders[found],
                                wasLoaded |-> wasLoaded, action |-> action ]
             /\ trackRequest' = TrackBody(allOrders[found], action)
             /\ UNCHANGED <<loadedOrders, lastToggle>>

\* the Mark Loaded / Unload button of an order
ToggleOrderLoaded ==
    /\ togglePc = "idle"
    /\ \E orderId \in DisplayedIds : ToggleStart(orderId)
    /\ UNCHANGED <<classifyVars, orsKeySet, sessionVars, ordersVars, handlerVars, scanVars,
                   exportVars, raceVars, apiVars>>

\* confirmLoadOrder() / markOrderUnloaded(): the modal's button, then closeModal()
ModalToggle ==
    /\ togglePc = "idle"
    /\ modalOrderId # NULL
    /\ ToggleStart(modalOrderId)
    /\ modalOrderId' = NULL
    /\ UNCHANGED <<classifyVars, orsKeySet, sessionVars, ordersVars, handlerVars, lastScan, keyVars,
                   exportVars, raceVars, apiVars>>

\* what the history keeps of a call that has finished: `result` is the
\* response body, NoObject when the fetch was rejected
Finished(call, result, after) ==
    LET twice == IF lastToggle = NoObject THEN FALSE
                 ELSE lastToggle.orderId = call.orderId
    IN  [ orderId |-> call.orderId, action |-> call.action,
          answered |-> result # NoObject,
          request |-> trackRequest, result |-> result,
          twice |-> twice,
          start |-> IF twice THEN lastToggle.before ELSE loadedOrders,
          before |-> loadedOrders, after |-> after ]

\* toggleOrderLoaded once /track-loading has answered
TrackLoadingResponds ==
    /\ togglePc = "tracking"
    /\ \E now \in Timestamps :
         LET result == TrackLoading(trackRequest)
             after == ToggleOutcome(loadedOrders, toggleCall, result, now)
         IN  /\ loadedOrders' = after
             /\ lastToggle' = Finished(toggleCall, result, after)
    /\ togglePc' = "idle"
    /\ toggleCall' = NoObject
    /\ trackRequest' = NoObject
    /\ UNCHANGED <<classifyVars, orsKeySet, sessionVars, ordersVars, handlerVars, scanVars,
                   exportVars, raceVars, apiVars>>

\* toggleOrderLoaded when the fetch is rejected: the catch block
TrackLoadingUnreachable ==
    /\ togglePc = "tracking"
    /\ lastToggle' = Finished(toggleCall, NoObject, loadedOrders)
    /\ togglePc' = "idle"
    /\ toggleCall' = NoObject
    /\ trackRequest' = NoObject
    /\ UNCHANGED <<loadedOrders, classifyVars, orsKeySet, sessionVars, ordersVars,
                   handlerVars, scanVars,
                   exportVars, raceVars, apiVars>>

\* showOrderDetails(orderId): the modal's order id afterwards
showOrderDetails(orderId) ==
    LET found == DetailsOrder(allOrders, orderId) IN
    IF found = 0 THEN modalOrderId ELSE StringOf(allOrders[found].id)

\* the View Details button of an order
ViewDetails ==
    /\ \E orderId \in DisplayedIds : modalOrderId' = showOrderDetails(Str(orderId))
    /\ UNCHANGED <<classifyVars, orsKeySet, sessionVars, ordersVars, handlerVars,
                   loadingVars, lastScan, keyVars,
                   exportVars, raceVars, apiVars>>

\* closeModal()
CloseModal ==
    /\ modalOrderId # NULL
    /\ modalOrderId' = NULL
    /\ UNCHANGED <<classifyVars, orsKeySet, sessionVars, ordersVars, handlerVars,
                   loadingVars, lastScan, keyVars,
                   exportVars, raceVars, apiVars>>

\* what showOrderDetails(orderId) hands to showError, NULL if nothing
DetailsError(orderId) ==
    IF DetailsOrder(allOrders, orderId) = 0 THEN "Order not found" ELSE NULL

\* the message processBarcodeInput shows for a code without order
NotFoundMessage(barcode) == "Order " \o barcode \o " not found in current order list"

\* processBarcodeInput(barcode) opening the first order's details for a code
\* without order
ProcessBarcodeInput_Guess ==
    /\ \E barcode \in ScanCodes :
         LET found == findOrderByNumber(allOrders, barcode) IN
         IF found # 0
         THEN /\ modalOrderId' = showOrderDetails(Object(allOrders[found]))
              /\ lastScan' = [ code |-> barcode, found |-> TRUE,
                               order |-> StringOf(allOrders[found].id),
                               error |-> DetailsError(Object(allOrders[found])) ]
         ELSE /\ lastScan' = [ code |-> barcode, found |-> FALSE, order |-> NULL,
                               error |-> NotFoundMessage(barcode) ]
              /\ modalOrderId' = StringOf(allOrders[1].id)
    /\ UNCHANGED <<classifyVars, orsKeySet, sessionVars, ordersVars, handlerVars,
                   loadingVars, keyVars, exportVars, raceVars, apiVars>>

\* processBarcodeInput(barcode), from the scanner or the manual input
ProcessBarcodeInput ==
    /\ \E barcode \in ScanCodes :
         LET found == findOrderByNumber(allOrders, barcode) IN
         IF found # 0
         THEN /\ modalOrderId' = showOrderDetails(Object(allOrders[found]))
              /\ lastScan' = [ code |-> barcode, found |-> TRUE,
                               order |-> StringOf(allOrders[found].id),
                               error |-> DetailsError(Object(allOrders[found])) ]
         ELSE /\ lastScan' = [ code |-> barcode, found |-> FALSE, order |-> NULL,
                               error |-> NotFoundMessage(barcode) ]
              /\ UNCHANGED modalOrderId
    /\ UNCHANGED <<classifyVars, orsKeySet, sessionVars, ordersVars, handlerVars,
                   loadingVars, keyVars, exportVars, raceVars, apiVars>>

\* resetRoute() clearing the order lists as well
ResetRoute_ClearsLists ==
    /\ optimizedRoute' = NoObject
    /\ allOrders' = << >>
    /\ deliveryOrders' = << >>
    /\ pickupOrders' = << >>
    /\ UNCHANGED <<classifyVars, orsKeySet, ordersVars, handlerVars, loadingVars, scanVars,
                   exportVars, raceVars, apiVars>>

\* resetRoute()
ResetRoute ==
    /\ optimizedRoute' = NoObject
    /\ UNCHANGED <<allOrders, deliveryOrders, pickupOrders>>
    /\ UNCHANGED <<classifyVars, orsKeySet, ordersVars, handlerVars, loadingVars, scanVars,
                   exportVars, raceVars, apiVars>>

LoadingNext ==
    \/ ToggleOrderLoaded
    \/ ModalToggle
    \/ TrackLoadingResponds
    \/ TrackLoadingUnreachable
    \/ ViewDetails
    \/ CloseModal
    \/ ProcessBarcodeInput
    \/ ResetRoute
    \/ OptimizeRoute
    \/ GeocodeNext
    \/ SolverReturns
    \/ ReceiveOptimization

SpecLoading == LoadedInit /\ [][LoadingNext]_vars


\* C16 as stated: a load action on a NotLoaded order, answered by the tracking
\* endpoint, leaves a loaded-state entry for the order with a timestamp and the
\* order's section (freezer for a delivery, fridge for a pickup); an answered
\* unload action leaves the order without entry.
C16_LoadCreatesEntry ==
    (lastToggle # NoObject /\ lastToggle.answered) =>
       LET id == lastToggle.orderId
           delivery == \E i \in 1..Len(deliveryOrders) :
                          StringOf(deliveryOrders[i].id) = id
       IN  IF lastToggle.action = "load"
           THEN /\ id \in DOMAIN lastToggle.after
                /\ "timestamp" \in DOMAIN lastToggle.after[id]
                /\ lastToggle.after[id].section
                      = IF delivery THEN "freezer" ELSE "fridge"
           ELSE id \notin DOMAIN lastToggle.after

C18_SameSections(old, new) ==
    /\ Len(new) = Len(old)
    /\ \A i \in 1..Len(old) :
          /\ new[i].id = old[i].id
          /\ SectionOf(new[i]) = SectionOf(old[i])
          /\ DeliveryTypeOf(new[i]) = DeliveryTypeOf(old[i])

C18_Step ==
    /\ C18_SameSections(allOrders, allOrders')
    /\ C18_SameSections(deliveryOrders, deliveryOrders')
    /\ C18_SameSections(pickupOrders, pickupOrders')

C18_AsClassified ==
    /\ C18_SameSections(ordersResponse.allOrders, allOrders)
    /\ C18_SameSections(ordersResponse.deliveries, deliveryOrders)
    /\ C18_SameSections(ordersResponse.pickups, pickupOrders)

\* C18: no step of a toggle, a scan or manual entry, the modal, an optimization
\* or a reset changes the section or the deliveryType of an order in the
\* dashboard's three lists; they are those the orders response gave them.
C18_SectionsFixed == [](C18_AsClassified) /\ [][C18_Step]_vars

\* after a toggle, a scan and a stored optimization the delivery is still in
\* the freezer section and the pickup in the fridge section
C18_Witness ==
    /\ lastToggle # NoObject
    /\ lastScan # NoObject
    /\ optimizedRoute # NoObject
    /\ Len(deliveryOrders) = 1
    /\ deliveryOrders[1].section = "freezer"
    /\ deliveryOrders[1].deliveryType = "delivery"
    /\ pickupOrders[1].section = "fridge"


(***************************************************************************)
(* public/delivery.js: findOrderByNumber on its own, applied to the codes  *)
(* typed into the manual input of a dashboard that has loaded its orders.  *)
(***************************************************************************)
MaxLookupOrders == 3

RECURSIVE Trim(_)
\* String.prototype.trim for blanks
Trim(s) ==
    IF Len(s) = 0 THEN s
    ELSE IF SubSeq(s, 1, 1) = " " THEN Trim(SubSeq(s, 2, Len(s)))
    ELSE IF SubSeq(s, Len(s), Len(s)) = " " THEN Trim(SubSeq(s, 1, Len(s) - 1))
    ELSE s

\* an order as fetchOrdersForSMS returns it: numeric id and order number,
\* display name "#" and the order number
LookupOrder(id, orderNumber) ==
    [ id |-> Num(id), orderNumber |-> Num(orderNumber),
      name |-> "#" \o NatToString(orderNumber) ]
    @@ (CHOOSE p \in OrderProfiles : p.customer.name = "Ann")

\* the orders of the day: one whose id contains another's order number
LookupOrders ==
    { LookupOrder(41007, 1005), LookupOrder(5002, 1007),
      LookupOrder(5003, 1008), LookupOrder(5004, 1010) }

\* the lists of different orders the dashboard may hold
LookupBatches ==
    UNION { { b \in [1..n -> LookupOrders] :
                \A i, j \in 1..n : b[i] = b[j] => i = j } :
            n \in 0..MaxLookupOrders }

\* the values of the manual input field
TypedCodes == {"1007", "100", "#1007", " 5003 ", "9999", ""}

LookupInit ==
    /\ order = [id |-> Num(0)]
    /\ classification = PENDING
    /\ reclassified = PENDING
    /\ orsKeySet = TRUE
    /\ \E batch \in LookupBatches :
          LET data == GetOrders(batch) IN
          /\ fetchedOrders = batch
          /\ ordersResponse = data
          /\ allOrders = data.allOrders
          /\ deliveryOrders = data.deliveries
          /\ pickupOrders = data.pickups
    /\ optimizedRoute = NoObject
    /\ HandlerIdle
    /\ LoadingIdle
    /\ ScanIdle
    /\ ExportIdle
    /\ RaceIdle
    /\ ApiIdle

\* handleManualInput(): the trimmed value, if not empty, goes to
\* processBarcodeInput
HandleManualInput ==
    /\ \E value \in TypedCodes :
         LET orderNumber == Trim(value)
             found == findOrderByNumber(allOrders, orderNumber)
         IN  IF orderNumber = ""
             THEN UNCHANGED <<modalOrderId, lastScan>>
             ELSE IF found # 0
             THEN /\ modalOrderId' = showOrderDetails(Object(allOrders[found]))
                  /\ lastScan' = [ code |-> orderNumber, found |-> TRUE,
                                   order |-> StringOf(allOrders[found].id),
                                   error |-> DetailsError(Object(allOrders[found])) ]
             ELSE /\ lastScan' = [ code |-> orderNumber, found |-> FALSE, order |-> NULL,
                                   error |-> NotFoundMessage(orderNumber) ]
                  /\ UNCHANGED modalOrderId
    /\ UNCHANGED <<classifyVars, orsKeySet, sessionVars, ordersVars, handlerVars,
                   loadingVars, keyVars, exportVars, raceVars, apiVars>>

LookupNext == HandleManualInput

SpecLookup == LookupInit /\ [][LookupNext]_vars

\* the order's number, stringified id or display name is the code
C19_MatchesExactly(o, code) ==
    \/ StringOf(o.orderNumber) = code
    \/ StringOf(o.id) = code
    \/ NameOf(o) = code

\* one of the order's three fields contains the code
C19_Contains(o, code) ==
    \/ Includes(StringOf(o.orderNumber), code)
    \/ Includes(StringOf(o.id), code)
    \/ (NameOf(o) # NULL /\ Includes(NameOf(o), code))

\* C19 as stated: when some order of the list has order number, stringified id
\* or display name equal to the code, the lookup returns an order that matches
\* the code exactly, also when an earlier order only contains the code.
C19_ExactFirst ==
    (/\ lastScan # NoObject
     /\ \E i \in 1..Len(allOrders) : C19_MatchesExactly(allOrders[i], lastScan.code))
    => /\ lastScan.found
       /\ \E i \in 1..Len(allOrders) :
             /\ StringOf(allOrders[i].id) = lastScan.order
             /\ C19_MatchesExactly(allOrders[i], lastScan.code)

\* C20 as stated: a code that matches no order exactly and is contained in the
\* fields of two or more orders is reported not found; no candidate is picked.
C20_AmbiguousNotFound ==
    (/\ lastScan # NoObject
     /\ \A i \in 1..Len(allOrders) : ~C19_MatchesExactly(allOrders[i], lastScan.code)
     /\ Cardinality({i \in 1..Len(allOrders) :
                        C19_Contains(allOrders[i], lastScan.code)}) >= 2)
    => /\ ~lastScan.found
       /\ lastScan.order = NULL


(***************************************************************************)
(* The scanner and the manual input on the loaded dashboard.               *)
(***************************************************************************)
\* a scan has just been processed and found the order whose number is the code
C21_ScannedByNumber ==
    /\ lastScan' # lastScan
    /\ lastScan'.found
    /\ \E i \in 1..Len(allOrders) :
          /\ StringOf(allOrders[i].orderNumber) = lastScan'.code
          /\ StringOf(allOrders[i].id) = lastScan'.order

\* C21 as stated: a scanned or typed code that is the order number of an order
\* of the list presents that order, and no other, in the details modal for
\* loading.
C21_ScanPresentsOrder ==
    [][C21_ScannedByNumber => modalOrderId' = lastScan'.order]_vars

\* a scan has just been processed and found no order
C22_ScannedUnknown ==
    /\ lastScan' # lastScan
    /\ ~lastScan'.found

C22_NoOtherEffect ==
    /\ lastScan'.error = "Order " \o lastScan'.code \o " not found in current order list"
    /\ lastScan'.order = NULL
    /\ UNCHANGED <<loadingVars, sessionVars, modalOrderId, handlerVars>>

\* what a code that matched an order leaves in the recent scans and shows
C22_Distinct ==
    (lastScan # NoObject /\ lastScan.found) =>
        /\ lastScan.order # NULL
        /\ lastScan.error # "Order " \o lastScan.code \o " not found in current order list"

\* C22: a code that matches no order leaves a failed entry in the recent scans
\* and a message naming the code, and changes nothing else: not the
\* loaded-state table, the order lists, the optimized route or the modal, and no
\* tracking request is sent; the entry and message of a code that matched an
\* order are different.
C22_NotFoundReported ==
    [](C22_Distinct) /\ [][C22_ScannedUnknown => C22_NoOtherEffect]_vars

\* an unknown code has been scanned on a dashboard with a stored route and a
\* finished toggle
C22_Witness ==
    /\ lastScan # NoObject
    /\ ~lastScan.found
    /\ lastScan.code = "9999"
    /\ optimizedRoute # NoObject
    /\ lastToggle # NoObject
    /\ togglePc = "idle"


(***************************************************************************)
(* routes/delivery.js: POST /track-loading under the requests of the       *)
(* dashboard and of other clients.                                         *)
(***************************************************************************)
\* bodies another client may post: nothing, one of the two required fields,
\* an empty section, and complete requests with and without an action
TrackBodies ==
    { << >>,
      [orderNumber |-> Num(1001)],
      [section |-> "fridge"],
      [orderNumber |-> Num(1001), section |-> ""],
      [orderNumber |-> Num(1001), section |-> "fridge"],
      [orderNumber |-> Num(1002), section |-> "freezer", action |-> "unload"] }

\* a client other than the dashboard posts to /track-loading
PostTrackLoading ==
    /\ \E body \in TrackBodies :
         /\ apiRequest' = body
         /\ apiReply' = TrackLoading(body)
    /\ UNCHANGED <<classifyVars, orsKeySet, sessionVars, ordersVars, handlerVars,
                   loadingVars, scanVars, exportVars, raceVars, callVars>>

TrackingNext ==
    \/ ToggleOrderLoaded
    \/ TrackLoadingResponds
    \/ TrackLoadingUnreachable
    \/ PostTrackLoading

SpecTracking == LoadedInit /\ [][TrackingNext]_vars

\* the body has no order number or no section
C26_Lacking(body) ==
    \/ "orderNumber" \notin DOMAIN body
    \/ "section" \notin DOMAIN body
    \/ body.section = ""

\* the response is a failure with the endpoint's error string
C26_Rejected(result) ==
    /\ ~result.success
    /\ result.error = "Order number and section are required"
    /\ DOMAIN result = {"success", "error"}

C26_State ==
    /\ (apiReply # NoObject /\ C26_Lacking(apiRequest)) => C26_Rejected(apiReply)
    /\ lastToggle # NoObject =>
          /\ (lastToggle.answered /\ C26_Lacking(lastToggle.request))
                => C26_Rejected(lastToggle.result)
          /\ (IF lastToggle.answered THEN ~lastToggle.result.success ELSE TRUE)
                => lastToggle.after = lastToggle.before

\* the endpoint has answered another client
C26_Answered == apiReply' # apiReply \/ apiRequest' # apiRequest

\* C26: a tracking request without order number or without section is answered
\* success=false with the error string; answering changes nothing but the
\* response; and after a rejected or failed request of the dashboard the
\* loaded-state table is what it was before the action.
C26_RejectedWithoutEffect ==
    [](C26_State)
    /\ [][C26_Answered => UNCHANGED <<loadingVars, sessionVars, ordersVars, handlerVars>>]_vars

\* the endpoint has rejected a body without order number, and a toggle of the
\* dashboard whose body had no section
C26_Witness ==
    /\ apiReply # NoObject
    /\ "orderNumber" \notin DOMAIN apiRequest
    /\ lastToggle # NoObject
    /\ lastToggle.answered
    /\ "section" \notin DOMAIN lastToggle.request
    /\ lastToggle.action = "load"
    /\ lastToggle.orderId \notin DOMAIN loadedOrders


(***************************************************************************)
(* routes/delivery.js: POST /optimize-route under the request bodies of    *)
(* clients other than the dashboard.                                       *)
(***************************************************************************)
MaxApiOrders == 2

\* the i-th order of a body; the first has its id as a string
ApiOrderAt(i) == ApiOrder(IF i = 1 THEN Str("12") ELSE Num(11 + i), Num(2001 + i))

\* the orders field of a body
ApiOrderLists == { [i \in 1..n |-> ApiOrderAt(i)] : n \in 0..MaxApiOrders }

\* the options field of a body: none, or vehicleOptions naming a routing
\* profile, a capacity, or the two ends of the tour
ApiOptions ==
    { << >>,
      [vehicleOptions |-> [profile |-> "driving-hgv"]],
      [vehicleOptions |-> [capacity |-> <<1>>]],
      [vehicleOptions |-> [start |-> <<1512000, -338600>>, end |-> <<1512000, -338600>>]] }

\* request bodies: with or without the orders field, with or without options
OptimizeBodies ==
    { << >> }
    \cup { [options |-> options] : options \in ApiOptions }
    \cup { [orders |-> orders] : orders \in ApiOrderLists }
    \cup { [orders |-> orders, options |-> options] :
             orders \in ApiOrderLists, options \in ApiOptions }

\* const { orders, options = {} } = req.body
BodyOptions(body) == IF "options" \in DOMAIN body THEN body.options ELSE << >>

\* the handler up to its first await, for any body: !orders || orders.length === 0
\* takes the branch of the empty list
HandlerEntry(body) ==
    IF "orders" \notin DOMAIN body
    THEN HandlerStart(<< >>)
    ELSE HandlerStart(body.orders)

\* a client posts a body to /optimize-route
PostOptimizeRoute ==
    /\ optPc = "idle"
    /\ \E body \in OptimizeBodies :
         LET start == HandlerEntry(body) IN
         /\ optPc' = start.pc
         /\ optClient' = "api"
         /\ apiRequest' = body
         /\ reqOrders' = IF "orders" \in DOMAIN body THEN body.orders ELSE << >>
         /\ reqOptions' = BodyOptions(body)
         /\ rawDeliveryOrders' = start.raw
         /\ optResponse' = start.response
    /\ UNCHANGED <<lookups, deliveryOrdersWithCoords, solverRequest, solverReply, solverCalls>>
    /\ UNCHANGED <<classifyVars, orsKeySet, sessionVars, ordersVars, loadingVars, scanVars,
                   exportVars, raceVars, apiReply, callVars>>

ApiNext ==
    \/ PostOptimizeRoute
    \/ GeocodeNext
    \/ SolverReturns
    \/ ReceiveOptimization

SpecApi == Init /\ [][ApiNext]_vars

\* C27 as stated: a request whose orders field is missing is answered with
\* success=false and an error string.
C27_MissingOrdersRejected ==
    (optPc = "responded" /\ "orders" \notin DOMAIN apiRequest) =>
        /\ ~optResponse.success
        /\ "error" \in DOMAIN optResponse

\* C30 as stated: the one vehicle sent to the solver has capacity at least the
\* number of jobs, starts at the farm and ends at the markets, whatever the
\* options of the request.
C30_VehicleFixed ==
    solverRequest # NoObject =>
        /\ Len(solverRequest.vehicles) = 1
        /\ solverRequest.vehicles[1].capacity[1] >= Len(solverRequest.jobs)
        /\ solverRequest.vehicles[1].start = FARM_LOCATION
        /\ solverRequest.vehicles[1].end = MarketsLocation


(***************************************************************************)
(* public/delivery.js: exportLoadingList on a dashboard that has loaded    *)
(* its orders.                                                             *)
(***************************************************************************)
MaxExportOrders == 2

RECURSIVE ReplaceFirst(_, _, _)
\* s.replace(c, by) for a one-character string c: the first occurrence only
ReplaceFirst(s, c, by) ==
    IF Len(s) = 0 THEN s
    ELSE IF SubSeq(s, 1, 1) = c THEN by \o SubSeq(s, 2, Len(s))
    ELSE SubSeq(s, 1, 1) \o ReplaceFirst(SubSeq(s, 2, Len(s)), c, by)

RECURSIVE ReplaceAll(_, _, _)
\* s.replace(/c/g, by) for a one-character string c
ReplaceAll(s, c, by) ==
    IF Len(s) = 0 THEN s
    ELSE (IF SubSeq(s, 1, 1) = c THEN by ELSE SubSeq(s, 1, 1))
            \o ReplaceAll(SubSeq(s, 2, Len(s)), c, by)

\* x || fallback for a string that may be absent or empty
OrDefault(o, field, fallback) ==
    IF field \in DOMAIN o /\ Truthy(o[field]) THEN o[field] ELSE fallback

\* the header line of the loading list
LoadingListHeader == "Order Number,Customer Name,Section,Items,Status"

\* one line of the loading list, without its line feed
LoadingListRow(o, table) ==
    LET customerName == ReplaceAll(OrDefault(o.customer, "name", "Unknown"), ",", ";")
        items == ReplaceAll(OrDefault(o, "subscriptionItems", "Order items"), ",", ";")
        section == IF SectionOf(o) = "freezer" THEN "Freezer" ELSE "Fridge"
        status == IF StringOf(o.id) \in DOMAIN table THEN "Loaded" ELSE "Not Loaded"
    IN  StringOf(o.orderNumber) \o ",\"" \o customerName \o "\"," \o section
           \o ",\"" \o items \o "\"," \o status

\* exportLoadingList(): the lines of the csv handed to downloadCsv, or the
\* message handed to showError
LoadingList(orders, table) ==
    IF Len(orders) = 0
    THEN [error |-> "No orders loaded to export"]
    ELSE [lines |-> <<LoadingListHeader>>
                      \o [i \in 1..Len(orders) |-> LoadingListRow(orders[i], table)]]

\* customer names and item summaries as fetchOrdersForSMS builds them: first
\* and last name, line items joined with ", "
ExportNames == {"Ann Lee", "Lee, Ann", "Lee, Ann, Jr."}

ExportItems == {"Veg box", "Veg box, 2 x Eggs, Milk"}

\* the i-th order of the day
ExportOrder(i, name, items, method) ==
    LET profile == CHOOSE p \in OrderProfiles :
                      p.customer.name = IF method = "Pickup" THEN "Ann" ELSE "Bob"
    IN  [ subscriptionItems |-> items,
          customer |-> [name |-> name, phone |-> profile.customer.phone] ]
        @@ FetchedOrder(i, profile)

ExportBatches ==
    UNION { { [i \in 1..n |-> ExportOrder(i, names[i], items[i], methods[i])] :
                names \in [1..n -> ExportNames], items \in [1..n -> ExportItems],
                methods \in [1..n -> {"Pickup", "Home Delivery"}] } :
            n \in 0..MaxExportOrders }

ExportInit ==
    /\ order = [id |-> Num(0)]
    /\ classification = PENDING
    /\ reclassified = PENDING
    /\ orsKeySet = TRUE
    /\ \E batch \in ExportBatches :
          LET data == GetOrders(batch) IN
          /\ fetchedOrders = batch
          /\ ordersResponse = data
          /\ allOrders = data.allOrders
          /\ deliveryOrders = data.deliveries
          /\ pickupOrders = data.pickups
    /\ optimizedRoute = NoObject
    /\ HandlerIdle
    /\ LoadingIdle
    /\ ScanIdle
    /\ ExportIdle
    /\ RaceIdle
    /\ ApiIdle

\* the Export Loading List button
ExportLoadingList ==
    /\ exportedCsv' = LoadingList(allOrders, loadedOrders)
    /\ UNCHANGED <<classifyVars, orsKeySet, sessionVars, ordersVars, handlerVars,
                   loadingVars, scanVars, raceVars, apiVars>>

ExportNext == ExportLoadingList

SpecExport == ExportInit /\ [][ExportNext]_vars

RECURSIVE C28_Columns(_)
\* the columns of a line: the pieces between its commas
C28_Columns(line) ==
    LET First(n) == SubSeq(line, 1, n)
        commas == {n \in 1..Len(line) : SubSeq(line, n, n) = ","}
    IN  IF commas = {} THEN <<line>>
        ELSE LET n == CHOOSE k \in commas : \A j \in commas : k <= j
             IN  <<First(n - 1)>> \o C28_Columns(SubSeq(line, n + 1, Len(line)))

\* C28: every line of an exported loading list, the header and each order's
\* line, has exactly 5 columns, whatever commas the customer name and the item
\* summary contain.
C28_FiveColumns ==
    (exportedCsv # NoObject /\ "lines" \in DOMAIN exportedCsv) =>
        \A i \in 1..Len(exportedCsv.lines) : Len(C28_Columns(exportedCsv.lines[i])) = 5

\* a list was exported in which a customer name has two commas and an item
\* summary has commas
C28_Witness ==
    /\ exportedCsv # NoObject
    /\ "lines" \in DOMAIN exportedCsv
    /\ \E i \in 1..Len(allOrders) : allOrders[i].customer.name = "Lee, Ann, Jr."
    /\ \E i \in 1..Len(allOrders) : Includes(allOrders[i].subscriptionItems, ",")

\* C29 as stated: the export has one line per order of the full list, with the
\* order's number, Section Freezer for an order classified as delivery and
\* Fridge for one classified as pickup, and Status Loaded exactly when the
\* loaded-state table has an entry for the order.
C29_OwnSectionAndStatus ==
    (exportedCsv # NoObject /\ "lines" \in DOMAIN exportedCsv) =>
        /\ Len(exportedCsv.lines) = Len(allOrders) + 1
        /\ \A i \in 1..Len(allOrders) :
              LET columns == C28_Columns(exportedCsv.lines[i + 1])
                  delivery == \E j \in 1..Len(deliveryOrders) :
                                 deliveryOrders[j].id = allOrders[i].id
              IN  /\ columns[1] = StringOf(allOrders[i].orderNumber)
                  /\ columns[3] = IF delivery THEN "Freezer" ELSE "Fridge"
                  /\ columns[5] = IF StringOf(allOrders[i].id) \in DOMAIN loadedOrders
                                  THEN "Loaded" ELSE "Not Loaded"


(***************************************************************************)
(* public/delivery.js: optimizeRoute() calls that overlap, and resetRoute, *)
(* on a dashboard that has loaded its orders. The button stays enabled     *)
(* while a call awaits its response.                                       *)
(***************************************************************************)
MaxCalls == 2

RECURSIVE GeocodeAll(_, _)
\* what the geocoding loop may leave in deliveryOrdersWithCoords after the
\* first k orders
GeocodeAll(raw, k) ==
    IF k = 0 THEN { << >> }
    ELSE LET address == raw[k].customer.address IN
         { PushIfResolved(withCoords, raw[k], geocodeAddress(orsKeySet, address, reply)) :
             withCoords \in GeocodeAll(raw, k - 1), reply \in GeocodeReplies(address) }

\* the handler from the end of the geocoding loop to its response
AfterGeocodingResponses(raw, withCoords) ==
    LET after == AfterGeocoding(Len(raw), withCoords, << >>) IN
    IF after.pc = "responded" THEN { after.response }
    ELSE { OptimizeFinish(withCoords, FARM_LOCATION, after.request, reply) :
             reply \in SolverReplies(after.request) }

\* the bodies POST /optimize-route may answer to {orders, options: {}}
OptimizeResponses(orders) ==
    LET start == HandlerStart(orders) IN
    IF start.pc = "responded" THEN { start.response }
    ELSE UNION { AfterGeocodingResponses(start.raw, withCoords) :
                   withCoords \in GeocodeAll(start.raw, Len(start.raw)) }

\* optimizeRoute() up to its await, whatever other calls are waiting; the
\* request carries the delivery orders of this moment
OptimizeRouteAgain ==
    /\ Len(optimizeCalls) < MaxCalls
    /\ IF Len(deliveryOrders) = 0
       THEN UNCHANGED <<optimizeCalls, routeEvents>>
       ELSE /\ optimizeCalls' =
                  Append(optimizeCalls, [ pc |-> "awaiting", orders |-> deliveryOrders,
                                          result |-> NoObject ])
            /\ routeEvents' =
                  Append(routeEvents, [kind |-> "issued", call |-> Len(optimizeCalls) + 1])
    /\ UNCHANGED <<classifyVars, orsKeySet, sessionVars, ordersVars, handlerVars,
                   loadingVars, scanVars, exportVars, apiVars>>

\* optimizeRoute() of call i once its response has arrived
OptimizeReturns ==
    /\ \E i \in 1..Len(optimizeCalls) :
         /\ optimizeCalls[i].pc = "awaiting"
         /\ \E result \in OptimizeResponses(optimizeCalls[i].orders) :
              /\ optimizeCalls' =
                    [optimizeCalls EXCEPT ![i] = [@ EXCEPT !.pc = "returned",
                                                           !.result = result]]
              /\ optimizedRoute' = IF StoresRoute(result) THEN result ELSE optimizedRoute
         /\ routeEvents' = Append(routeEvents, [kind |-> "returned", call |-> i])
    /\ UNCHANGED <<classifyVars, orsKeySet, allOrders, deliveryOrders, pickupOrders,
                   ordersVars, handlerVars, loadingVars, scanVars, exportVars, apiVars>>

\* optimizeRoute() of call i when its fetch is rejected: the catch block
OptimizeUnreachable ==
    /\ \E i \in 1..Len(optimizeCalls) :
         /\ optimizeCalls[i].pc = "awaiting"
         /\ optimizeCalls' = [optimizeCalls EXCEPT ![i] = [@ EXCEPT !.pc = "failed"]]
         /\ routeEvents' = Append(routeEvents, [kind |-> "failed", call |-> i])
    /\ UNCHANGED <<classifyVars, orsKeySet, sessionVars, ordersVars, handlerVars,
                   loadingVars, scanVars, exportVars, apiVars>>

\* the events keep a reset that found a route
ResetLogged ==
    IF optimizedRoute # NoObject
    THEN Append(routeEvents, [kind |-> "reset", call |-> 0])
    ELSE routeEvents

\* resetRoute() starting the day over: the pickups are dropped as well
ResetRouteAgain_DropsPickups ==
    /\ optimizedRoute' = NoObject
    /\ routeEvents' = ResetLogged
    /\ pickupOrders' = << >>
    /\ UNCHANGED <<allOrders, deliveryOrders>>
    /\ UNCHANGED <<classifyVars, orsKeySet, ordersVars, handlerVars, loadingVars, scanVars,
                   exportVars, optimizeCalls, apiVars>>

\* resetRoute(), whatever calls are waiting
ResetRouteAgain ==
    /\ optimizedRoute' = NoObject
    /\ routeEvents' = ResetLogged
    /\ UNCHANGED <<allOrders, deliveryOrders, pickupOrders>>
    /\ UNCHANGED <<classifyVars, orsKeySet, ordersVars, handlerVars, loadingVars, scanVars,
                   exportVars, optimizeCalls, apiVars>>

RaceNext ==
    \/ OptimizeRouteAgain
    \/ OptimizeReturns
    \/ OptimizeUnreachable
    \/ ResetRouteAgain

SpecRace == LoadedInit /\ [][RaceNext]_vars

\* the last event is a reset
C23_JustReset ==
    /\ Len(routeEvents') = Len(routeEvents) + 1
    /\ routeEvents'[Len(routeEvents')].kind = "reset"

\* C23: a reset of a stored route leaves no route (and so no packing order)
\* and changes nothing else: the loaded-state table, the toggle in progress and
\* the three order lists are those from before the reset, and so are the calls
\* still awaiting a response.
C23_ResetClearsOnlyRoute ==
    [][C23_JustReset =>
          /\ optimizedRoute # NoObject
          /\ optimizedRoute' = NoObject
          /\ UNCHANGED <<loadingVars, allOrders, deliveryOrders, pickupOrders,
                         ordersVars, scanVars, optimizeCalls>>]_vars

\* a stored route has just been reset on a dashboard that holds a delivery and
\* a pickup
C23_Witness ==
    /\ Len(routeEvents) > 0
    /\ routeEvents[Len(routeEvents)].kind = "reset"
    /\ optimizedRoute = NoObject
    /\ Len(deliveryOrders) = 1
    /\ Len(pickupOrders) >= 1
    /\ Len(allOrders) >= 2

\* call i has just returned after a call issued later than it had returned
C24_StaleReturn ==
    /\ Len(routeEvents') = Len(routeEvents) + 1
    /\ LET last == routeEvents'[Len(routeEvents')] IN
       /\ last.kind = "returned"
       /\ \E n \in 1..Len(routeEvents) :
             /\ routeEvents[n].kind = "returned"
             /\ routeEvents[n].call > last.call

\* C24 as stated: the response of an optimize call that arrives after the
\* response of a later call is discarded: it does not change the stored route.
C24_StaleDiscarded == [][C24_StaleReturn => optimizedRoute' = optimizedRoute]_vars


(***************************************************************************)
(* public/delivery.js: the whole dashboard session around the loaded-state *)
(* table: fetching the orders, toggling, optimizing, resetting, looking up *)
(* codes and exporting.                                                    *)
(***************************************************************************)
\* loadUnfulfilledOrders() marking the pickups as loaded
LoadTruckOrders_MarksPickups ==
    /\ optPc = "idle"
    /\ OrdersNotLoaded
    /\ \E batch \in TruckBatches :
         LET data == GetOrders(batch) IN
         /\ fetchedOrders' = batch
         /\ ordersResponse' = data
         /\ allOrders' = data.allOrders
         /\ deliveryOrders' = data.deliveries
         /\ pickupOrders' = data.pickups
         /\ loadedOrders' =
               [id \in {StringOf(data.pickups[i].id) : i \in 1..Len(data.pickups)} |->
                   [timestamp |-> "", section |-> "fridge"]]
    /\ UNCHANGED <<classifyVars, orsKeySet, optimizedRoute, handlerVars, togglePc,
                   toggleCall, trackRequest, lastToggle, scanVars, exportVars, raceVars,
                   apiVars>>

\* loadUnfulfilledOrders(), GET /orders answering with the day's batch; like
\* LoadUnfulfilledOrders it is followed for the first fetch of the page
LoadTruckOrders ==
    /\ optPc = "idle"
    /\ OrdersNotLoaded
    /\ \E batch \in TruckBatches :
         LET data == GetOrders(batch) IN
         /\ fetchedOrders' = batch
         /\ ordersResponse' = data
         /\ allOrders' = data.allOrders
         /\ deliveryOrders' = data.deliveries
         /\ pickupOrders' = data.pickups
    /\ UNCHANGED <<classifyVars, orsKeySet, optimizedRoute, handlerVars, loadingVars,
                   scanVars, exportVars, raceVars, apiVars>>

\* optimizeRoute() when its fetch is rejected: the catch block reports, the
\* stored route stays
OptimizeRejected ==
    /\ optPc = "responded"
    /\ optClient = "dashboard"
    /\ optPc' = "idle"
    /\ optClient' = NULL
    /\ solverCalls' = 0
    /\ reqOrders' = << >>
    /\ reqOptions' = << >>
    /\ rawDeliveryOrders' = << >>
    /\ lookups' = << >>
    /\ deliveryOrdersWithCoords' = << >>
    /\ solverRequest' = NoObject
    /\ solverReply' = NoObject
    /\ optResponse' = NoObject
    /\ UNCHANGED <<classifyVars, orsKeySet, sessionVars, ordersVars, loadingVars,
                   scanVars, exportVars, raceVars, apiVars>>

SessionNext ==
    \/ LoadTruckOrders
    \/ LoadUnfulfilledOrdersFailed
    \/ ToggleOrderLoaded
    \/ TrackLoadingResponds
    \/ TrackLoadingUnreachable
    \/ OptimizeRoute
    \/ GeocodeNext
    \/ SolverReturns
    \/ ReceiveOptimization
    \/ OptimizeRejected
    \/ ResetRoute
    \/ ProcessBarcodeInput
    \/ ExportLoadingList

SessionInit ==
    /\ order = [id |-> Num(0)]
    /\ classification = PENDING
    /\ reclassified = PENDING
    /\ orsKeySet = TRUE
    /\ SessionEmpty

SpecSession == SessionInit /\ [][SessionNext]_vars

\* C25: a step changes the loaded-state table only when it is the completion
\* of a toggle; fetching the orders (with success or failure), every step and
\* outcome of an optimization, a route reset, a code lookup and the export
\* leave every entry as it was.
C25_OnlyTogglesChangeTable ==
    [][loadedOrders' # loadedOrders =>
          /\ togglePc = "tracking"
          /\ togglePc' = "idle"
          /\ lastToggle'.answered
          /\ lastToggle'.result.success
          /\ \A id \in (DOMAIN loadedOrders \cup DOMAIN loadedOrders') \ {lastToggle'.orderId} :
                /\ id \in DOMAIN loadedOrders
                /\ id \in DOMAIN loadedOrders'
                /\ loadedOrders'[id] = loadedOrders[id]]_vars

\* the orders were fetched, a toggle has finished, a route was stored, a code
\* looked up and the list exported
C25_Witness ==
    /\ ordersResponse # NoObject
    /\ Len(allOrders) = 2
    /\ lastToggle # NoObject
    /\ optimizedRoute # NoObject
    /\ lastScan # NoObject
    /\ exportedCsv # NoObject
    /\ optPc = "idle"
    /\ togglePc = "idle"

(***************************************************************************)
(* The annotations of the optimized route                                  *)
(***************************************************************************)
\* C31 as stated: a successful result built from a solver route holds one stop
\* per job step of that route and no other, in the solver's order; the k-th
\* stop has sequence k, its rank of arrival, and as arrivalTime the arrival
\* time the solver gave for that step.
C31_RankedStops ==
    (optPc = "responded" /\ solverReply # NoObject /\ optResponse.success) =>
       /\ Len(optResponse.optimizedRoute) = Len(SolverJobSteps)
       /\ \A k \in 1..Len(SolverJobSteps) :
             /\ optResponse.optimizedRoute[k].sequence = k
             /\ optResponse.optimizedRoute[k].arrivalTime = SolverJobSteps[k].arrival

(***************************************************************************)
(* public/delivery.js: the keydown listener of the USB scanner, its        *)
(* debounce timeout and the scanner mode button, on a dashboard that has   *)
(* loaded its orders.                                                      *)
(***************************************************************************)
MaxKeys == 4

\* event.key of the keys pressed: a digit, the space bar, Enter and a key
\* that is no character
ScannerKeys == {"1", " ", "Enter", "Shift"}

\* the keydown events: on the page, or while an input field has the focus
KeyEvents ==
    {[key |-> k, target |-> "BODY"] : k \in ScannerKeys}
    \cup {[key |-> "1", target |-> "INPUT"]}

\* processBarcodeInput(barcode): the recent scan and the modal afterwards
processBarcodeInput(barcode) ==
    LET found == findOrderByNumber(allOrders, barcode) IN
    IF found # 0
    THEN /\ modalOrderId' = showOrderDetails(Object(allOrders[found]))
         /\ lastScan' = [ code |-> barcode, found |-> TRUE,
                          order |-> StringOf(allOrders[found].id),
                          error |-> DetailsError(Object(allOrders[found])) ]
    ELSE /\ lastScan' = [ code |-> barcode, found |-> FALSE, order |-> NULL,
                          error |-> NotFoundMessage(barcode) ]
         /\ UNCHANGED modalOrderId

\* if (scanBuffer.trim()) { processBarcodeInput(scanBuffer.trim()); scanBuffer = '' }
ProcessBuffer ==
    IF Trim(scanBuffer) # ""
    THEN /\ processBarcodeInput(Trim(scanBuffer))
         /\ processed' = Append(processed, Trim(scanBuffer))
         /\ scanBuffer' = ""
    ELSE UNCHANGED <<scanBuffer, processed, modalOrderId, lastScan>>

\* handleBarcodeInput(event) without the clearTimeout
handleBarcodeInput_KeepsTimeout(event) ==
    IF ~scannerActive \/ event.target \in {"INPUT", "TEXTAREA"}
    THEN UNCHANGED <<scanBuffer, scanTimeout, timers, processed, modalOrderId, lastScan>>
    ELSE IF event.key = "Enter"
    THEN /\ UNCHANGED <<timers, scanTimeout>>
         /\ ProcessBuffer
    ELSE IF Len(event.key) = 1
    THEN /\ scanBuffer' = scanBuffer \o event.key
         /\ scanTimeout' = Len(keyEvents) + 1
         /\ timers' = timers \cup {Len(keyEvents) + 1}
         /\ UNCHANGED <<processed, modalOrderId, lastScan>>
    ELSE UNCHANGED <<timers, scanBuffer, scanTimeout, processed, modalOrderId, lastScan>>

\* handleBarcodeInput(event); the timeout set by a character key gets the
\* number of the event as its id
handleBarcodeInput(event) ==
    IF ~scannerActive \/ event.target \in {"INPUT", "TEXTAREA"}
    THEN UNCHANGED <<scanBuffer, scanTimeout, timers, processed, modalOrderId, lastScan>>
    ELSE
      LET cleared == timers \ {scanTimeout} IN
      IF event.key = "Enter"
      THEN /\ timers' = cleared
           /\ UNCHANGED scanTimeout
           /\ ProcessBuffer
      ELSE IF Len(event.key) = 1
      THEN /\ scanBuffer' = scanBuffer \o event.key
           /\ scanTimeout' = Len(keyEvents) + 1
           /\ timers' = cleared \cup {Len(keyEvents) + 1}
           /\ UNCHANGED <<processed, modalOrderId, lastScan>>
      ELSE /\ timers' = cleared
           /\ UNCHANGED <<scanBuffer, scanTimeout, processed, modalOrderId, lastScan>>

\* a key goes down
KeyDown ==
    /\ Len(keyEvents) < MaxKeys
    /\ \E event \in KeyEvents :
          /\ handleBarcodeInput(event)
          /\ keyEvents' = Append(keyEvents, event)
    /\ UNCHANGED <<classifyVars, orsKeySet, sessionVars, ordersVars, handlerVars,
                   loadingVars, scannerActive, exportVars, raceVars, apiVars>>

\* 100 ms after it was set, a timeout that was not cleared runs its callback
ScanTimeoutRuns ==
    /\ \E id \in timers : timers' = timers \ {id}
    /\ ProcessBuffer
    /\ UNCHANGED <<classifyVars, orsKeySet, sessionVars, ordersVars, handlerVars,
                   loadingVars, scannerActive, scanTimeout, keyEvents, exportVars,
                   raceVars, apiVars>>

\* toggleScannerMode(): the scanner button
ToggleScannerMode ==
    /\ scannerActive' = ~scannerActive
    /\ scanBuffer' = IF scannerActive THEN "" ELSE scanBuffer
    /\ UNCHANGED <<classifyVars, orsKeySet, sessionVars, ordersVars, handlerVars,
                   loadingVars, modalOrderId, lastScan, scanTimeout, timers, keyEvents,
                   processed, exportVars, raceVars, apiVars>>

ScannerNext ==
    \/ KeyDown
    \/ ScanTimeoutRuns
    \/ ToggleScannerMode

SpecScanner == LoadedInit /\ [][ScannerNext]_vars

\* the step is a keydown event that the listener does not ignore
C32_Handled ==
    /\ keyEvents' # keyEvents
    /\ scannerActive
    /\ keyEvents'[Len(keyEvents')].target = "BODY"

\* the key of the step's keydown event
C32_Key == keyEvents'[Len(keyEvents')].key

\* the step runs the callback of a timeout
C32_TimeoutStep == keyEvents' = keyEvents /\ timers' # timers

\* the step hands a code to processBarcodeInput
C32_Emits == processed' # processed

\* what a step of the scanner does to the buffer, the timeout and the codes
\* processed
C32_Step ==
    \* a character key joins the buffer and restarts the window: the timeout
    \* it sets is the only one pending, and nothing is processed yet
    /\ (C32_Handled /\ Len(C32_Key) = 1) =>
          /\ scanBuffer' = scanBuffer \o C32_Key
          /\ timers' = {scanTimeout'}
          /\ scanTimeout' \notin timers
          /\ ~C32_Emits
    \* keys are taken only while the scanner mode is active
    /\ (keyEvents' # keyEvents /\ ~scannerActive) =>
          UNCHANGED <<scanBuffer, timers, processed>>
    \* Enter, and a timeout that runs, process the code of the buffer
    /\ (C32_Handled /\ C32_Key = "Enter" /\ Trim(scanBuffer) # "") => C32_Emits
    /\ (C32_TimeoutStep /\ Trim(scanBuffer) # "") => C32_Emits
    \* nothing else does; the code is the whole buffer, it is processed once,
    \* and the buffer is empty and no timeout is pending afterwards
    /\ C32_Emits =>
          /\ (C32_Handled /\ C32_Key = "Enter") \/ C32_TimeoutStep
          /\ processed' = Append(processed, Trim(scanBuffer))
          /\ scanBuffer' = ""
          /\ timers' = {}
    \* never more than the newest timeout is pending
    /\ timers' \subseteq {scanTimeout'}

C33_TimeoutPending ==
    (scannerActive /\ Trim(scanBuffer) # "") => timers # {}

(***************************************************************************)
(* routes/delivery.js: the calls one POST /optimize-route request makes,   *)
(* each geocodeAddress call followed from the moment it is made to the     *)
(* moment its promise settles.                                             *)
(***************************************************************************)
MaxRouteOrders == 3

\* the orders a request may hold: a delivery with an address, a pickup, a
\* delivery without address, and a delivery whose address has no street and
\* no city
RouteOrderKinds ==
    { [deliveryType |-> "delivery", customer |-> [name |-> "Zed", address |-> AddressA]],
      [deliveryType |-> "pickup", customer |-> [name |-> "Zed", address |-> AddressA]],
      [deliveryType |-> "delivery", customer |-> [name |-> "Zed"]],
      [ deliveryType |-> "delivery",
        customer |-> [name |-> "Zed", address |-> [address1 |-> "", city |-> ""]] ] }

\* the order lists of a request; ids and order numbers follow the position
RouteOrderLists ==
    UNION { { [i \in 1..n |-> [id |-> Num(10 + i), orderNumber |-> Num(2000 + i)]
                              @@ kinds[i]] :
              kinds \in [1..n -> RouteOrderKinds] } :
            n \in 1..MaxRouteOrders }

GeocodeSent(o) == [call |-> "geocode", at |-> "sent", order |-> o.id]

GeocodeReturned(o) == [call |-> "geocode", at |-> "returned", order |-> o.id]

SolverSent == [call |-> "optimization", at |-> "sent", order |-> Num(0)]

\* a client posts a list of orders; the handler runs up to its first await
PostOrders ==
    /\ optPc = "idle"
    /\ apiRequest = NoObject
    /\ \E orders \in RouteOrderLists :
         LET start == HandlerStart(orders) IN
         /\ optPc' = start.pc
         /\ optClient' = "api"
         /\ apiRequest' = [orders |-> orders]
         /\ reqOrders' = orders
         /\ reqOptions' = << >>
         /\ rawDeliveryOrders' = start.raw
         /\ optResponse' = start.response
    /\ UNCHANGED <<lookups, deliveryOrdersWithCoords, solverRequest, solverReply, solverCalls>>
    /\ UNCHANGED <<classifyVars, orsKeySet, sessionVars, ordersVars, loadingVars, scanVars,
                   exportVars, raceVars, apiReply, callVars>>

\* the geocoding loop mapped over the orders without awaiting each call
GeocodeCall_NoAwait ==
    /\ optPc = "geocoding"
    /\ Len(lookups) + Cardinality(geoPending) < Len(rawDeliveryOrders)
    /\ LET turn == Len(lookups) + Cardinality(geoPending) + 1 IN
       /\ geoPending' = geoPending \cup {turn}
       /\ serviceCalls' = Append(serviceCalls, GeocodeSent(rawDeliveryOrders[turn]))
    /\ UNCHANGED <<classifyVars, orsKeySet, sessionVars, ordersVars, handlerVars,
                   loadingVars, scanVars, exportVars, raceVars, apiRequest, apiReply>>

\* a turn of the geocoding loop calls geocodeAddress and awaits it; the next
\* turn begins when the loop body has run to its end
GeocodeCall ==
    /\ optPc = "geocoding"
    /\ geoPending = {}
    /\ Len(lookups) < Len(rawDeliveryOrders)
    /\ LET turn == Len(lookups) + 1 IN
       /\ geoPending' = {turn}
       /\ serviceCalls' = Append(serviceCalls, GeocodeSent(rawDeliveryOrders[turn]))
    /\ UNCHANGED <<classifyVars, orsKeySet, sessionVars, ordersVars, handlerVars,
                   loadingVars, scanVars, exportVars, raceVars, apiRequest, apiReply>>

\* the awaited geocodeAddress call settles and the loop body runs on: to the
\* next turn or, after the last, to the response or to the solver call
GeocodeSettles ==
    /\ optPc = "geocoding"
    /\ Len(lookups) + 1 \in geoPending
    /\ LET o == rawDeliveryOrders[Len(lookups) + 1] IN
       /\ \E reply \in GeocodeReplies(o.customer.address) :
             GeocodeStep(geocodeAddress(orsKeySet, o.customer.address, reply))
       /\ geoPending' = geoPending \ {Len(lookups) + 1}
       /\ serviceCalls' = Append(serviceCalls, GeocodeReturned(o))
                          \o (IF optPc' = "solving" THEN <<SolverSent>> ELSE << >>)
    /\ UNCHANGED <<classifyVars, orsKeySet, sessionVars, ordersVars, loadingVars, scanVars,
                   exportVars, raceVars, apiRequest, apiReply>>

CallsNext ==
    \/ PostOrders
    \/ GeocodeCall
    \/ GeocodeSettles
    \/ SolverReturns

SpecCalls == Init /\ [][CallsNext]_vars

\* the order is a delivery with an address that names a street or a city
C34_ToGeocode(o) ==
    /\ o.deliveryType = "delivery"
    /\ "address" \in DOMAIN o.customer
    /\ (o.customer.address.address1 # "" \/ o.customer.address.city # "")

\* the calls a request with the orders xs makes when it runs to the solver:
\* for each order to geocode, in the order of xs, a lookup sent and that
\* lookup returned, and then the solver call
RECURSIVE C34_Schedule(_)
C34_Schedule(xs) ==
    IF Len(xs) = 0 THEN <<SolverSent>>
    ELSE IF C34_ToGeocode(Head(xs))
    THEN <<GeocodeSent(Head(xs)), GeocodeReturned(Head(xs))>> \o C34_Schedule(Tail(xs))
    ELSE C34_Schedule(Tail(xs))

\* C34: the calls made so far by a request are the beginning of the one
\* schedule in which each delivery order with an address is looked up once, in
\* the order of the request's list, each lookup sent after the one before has
\* returned, and the solver called after the last lookup has returned; a
\* request that has reached the solver or its response has finished every
\* lookup.
C34_OneAtATime ==
    apiRequest # NoObject =>
       LET schedule == C34_Schedule(apiRequest.orders)
           n == Len(serviceCalls)
       IN  /\ n <= Len(schedule)
           /\ serviceCalls = SubSeq(schedule, 1, n)
           /\ Cardinality(geoPending) <= 1
           /\ optPc \in {"solving", "responded"} => n >= Len(schedule) - 1
           /\ optPc = "solving" => n = Len(schedule)

\* two lookups around an order that is not looked up, then the solver call
C34_Witness ==
    /\ apiRequest # NoObject
    /\ Len(apiRequest.orders) = 3
    /\ ~C34_ToGeocode(apiRequest.orders[2])
    /\ Len(serviceCalls) = 5
    /\ serviceCalls[5] = SolverSent
    /\ optPc = "solving"

(***************************************************************************)
(* public/delivery.js: the stored route over a session in which the orders *)
(* are fetched again, optimizeRoute() calls overlap, the route is reset    *)
(* and the route sheet is exported.                                        *)
(***************************************************************************)
\* the header line of the route sheet
RouteSheetHeader == "Stop Number,Order Number,Customer Name,Address,Items,Phone"

\* `${address.address1 || ''} ${address.city || ''}`.trim().replace(/,/g, ';'),
\* or 'No address'
AddressText(o) ==
    IF "customer" \in DOMAIN o /\ "address" \in DOMAIN o.customer
       /\ o.customer.address # NoObject
    THEN ReplaceAll(Trim(OrDefault(o.customer.address, "address1", "") \o " "
                            \o OrDefault(o.customer.address, "city", "")),
                    ",", ";")
    ELSE "No address"

\* one line of the route sheet, without its line feed
RouteSheetRow(o, index) ==
    LET customerName == ReplaceAll(OrDefault(o.customer, "name", "Unknown"), ",", ";")
        items == ReplaceAll(OrDefault(o, "subscriptionItems", "Order items"), ",", ";")
        phone == OrDefault(o.customer, "phone", "")
    IN  NatToString(index) \o "," \o StringOf(o.orderNumber) \o ",\"" \o customerName
           \o "\",\"" \o AddressText(o) \o "\",\"" \o items \o "\"," \o phone

\* exportRouteSheet(): the lines of the csv handed to downloadCsv, or the
\* message handed to showError
RouteSheet(route) ==
    IF route = NoObject
    THEN [error |-> "No optimized route to export. Please optimize route first."]
    ELSE IF Len(route.optimizedRoute) = 0
    THEN [error |-> "No optimized route to export. Please optimize route first."]
    ELSE [lines |-> <<RouteSheetHeader>>
                      \o [i \in 1..Len(route.optimizedRoute) |->
                             RouteSheetRow(route.optimizedRoute[i], i)]]

\* the Export Route Sheet button
ExportRouteSheet ==
    /\ exportedCsv' = RouteSheet(optimizedRoute)
    /\ UNCHANGED <<classifyVars, orsKeySet, sessionVars, ordersVars, handlerVars,
                   loadingVars, scanVars, raceVars, apiVars>>

\* the Load Orders button pressed again: loadUnfulfilledOrders(), GET /orders
\* answering with the batch of that moment
ReloadOrders ==
    /\ \E batch \in TruckBatches :
         LET data == GetOrders(batch) IN
         /\ fetchedOrders' = batch
         /\ ordersResponse' = data
         /\ allOrders' = data.allOrders
         /\ deliveryOrders' = data.deliveries
         /\ pickupOrders' = data.pickups
    /\ UNCHANGED <<classifyVars, orsKeySet, optimizedRoute, handlerVars, loadingVars,
                   scanVars, exportVars, raceVars, apiVars>>

RoutesNext ==
    \/ ReloadOrders
    \/ OptimizeRouteAgain
    \/ OptimizeReturns
    \/ OptimizeUnreachable
    \/ ResetRouteAgain
    \/ ExportRouteSheet

SpecRoutes == LoadedInit /\ [][RoutesNext]_vars

\* a route has been reset and no optimize action was started since
C36_ResetStands ==
    \E r \in 1..Len(routeEvents) :
       /\ routeEvents[r].kind = "reset"
       /\ \A n \in (r + 1)..Len(routeEvents) : routeEvents[n].kind # "issued"

\* C36 as stated: from the reset of a route until the operator starts the
\* next optimize action no route is stored, whatever responses arrive, and an
\* export of the route sheet made in that time produces no sheet.
C36_StaysCleared ==
    [][C36_ResetStands' =>
          /\ optimizedRoute' = NoObject
          /\ (exportedCsv' # exportedCsv => "error" \in DOMAIN exportedCsv')]_vars

\* the stop is one of the orders of the list
C37_Listed(stop, orders) ==
    /\ "id" \in DOMAIN stop
    /\ \E i \in 1..Len(orders) : orders[i].id = stop.id

\* C37 as stated: every stop of the stored route and of its packing order is
\* an order of the current deliveries list.
C37_RouteWithinDeliveries ==
    optimizedRoute # NoObject =>
       /\ \A k \in 1..Len(optimizedRoute.optimizedRoute) :
             C37_Listed(optimizedRoute.optimizedRoute[k], deliveryOrders)
       /\ \A k \in 1..Len(optimizedRoute.packingOrder) :
             C37_Listed(optimizedRoute.packingOrder[k], deliveryOrders)

(***************************************************************************)
(* routes/delivery.js: POST /split-route                                   *)
(***************************************************************************)
MaxSplitOrders == 3

\* Array.prototype.slice(start, end) for integers: a negative index counts
\* from the end, and both are clamped to the list
Slice(xs, start, end) ==
    LET Clamp(k) == IF k < 0
                    THEN (IF Len(xs) + k < 0 THEN 0 ELSE Len(xs) + k)
                    ELSE (IF k > Len(xs) THEN Len(xs) ELSE k)
    IN  SubSeq(xs, Clamp(start) + 1, Clamp(end))

\* the handler of /split-route; a number that is missing or 0 is falsy in
\* splitPoint || Math.floor(orders.length / 2)
SplitRoute(body) ==
    IF "orders" \notin DOMAIN body
    THEN [success |-> FALSE, error |-> "Orders array is required"]
    ELSE
      LET orders == body.orders
          splitIndex == IF "splitPoint" \in DOMAIN body /\ body.splitPoint # 0
                        THEN body.splitPoint
                        ELSE Len(orders) \div 2
          driver1Orders == Slice(orders, 0, splitIndex)
          driver2Orders == Slice(orders, splitIndex, Len(orders))
      IN  [ success |-> TRUE,
            split |-> [ driver1 |-> [ name |-> OrDefault(body, "driver1Name", "Driver 1"),
                                      orders |-> driver1Orders,
                                      count |-> Len(driver1Orders) ],
                        driver2 |-> [ name |-> OrDefault(body, "driver2Name", "Driver 2"),
                                      orders |-> driver2Orders,
                                      count |-> Len(driver2Orders) ] ],
            summary |-> [ totalOrders |-> Len(orders),
                          driver1Count |-> Len(driver1Orders),
                          driver2Count |-> Len(driver2Orders) ] ]

\* the lists of orders submitted: two orders in any sequence
SplitOrderLists ==
    UNION { [1..n -> {ApiOrderAt(1), ApiOrderAt(2)}] : n \in 0..MaxSplitOrders }

\* the split points submitted: from below 0 to beyond the longest list
SplitPoints == (0 - 1)..(MaxSplitOrders + 1)

\* request bodies: without orders, without split point, without and with the
\* name of a driver
SplitBodies ==
    { [splitPoint |-> 1] }
    \cup { [orders |-> orders] : orders \in SplitOrderLists }
    \cup { [orders |-> orders, splitPoint |-> k] :
             orders \in SplitOrderLists, k \in SplitPoints }
    \cup { [orders |-> orders, splitPoint |-> k, driver1Name |-> "Kim"] :
             orders \in SplitOrderLists, k \in {0, 1} }

\* a client posts a body to /split-route
PostSplitRoute ==
    /\ \E body \in SplitBodies :
         /\ apiRequest' = body
         /\ apiReply' = SplitRoute(body)
    /\ UNCHANGED <<classifyVars, orsKeySet, sessionVars, ordersVars, handlerVars,
                   loadingVars, scanVars, exportVars, raceVars, callVars>>

SplitNext == PostSplitRoute

SpecSplit == Init /\ [][SplitNext]_vars

\* C38 as stated: a split that succeeds loses and reorders nothing, the two
\* counts add up to the total, and driver 1 has exactly the first splitPoint
\* orders when a splitPoint from 0 to the length of the list is given, and the
\* first half of the list, rounded down, when none is given.
C38_SplitPartitions ==
    (apiReply # NoObject /\ apiReply.success) =>
       LET orders == apiRequest.orders
           driver1 == apiReply.split.driver1
           driver2 == apiReply.split.driver2
       IN  /\ driver1.orders \o driver2.orders = orders
           /\ apiReply.summary.driver1Count + apiReply.summary.driver2Count
                 = apiReply.summary.totalOrders
           /\ apiReply.summary.totalOrders = Len(orders)
           /\ driver1.count = Len(driver1.orders)
           /\ driver2.count = Len(driver2.orders)
           /\ IF "splitPoint" \in DOMAIN apiRequest
              THEN (apiRequest.splitPoint >= 0 /\ apiRequest.splitPoint <= Len(orders))
                      => driver1.orders = SubSeq(orders, 1, apiRequest.splitPoint)
              ELSE driver1.orders = SubSeq(orders, 1, Len(orders) \div 2)

====
